---- MODULE Spec2Model ----
(***************************************************************************)
(* Model of the OTP authentication engine of plants_application_api_drf:   *)
(* core/services.py (OTPService over the Django cache), the session-bound  *)
(* serializers of core/serializers.py and the AuthViewSet actions of       *)
(* core/views.py that sequence them.                                       *)
(*                                                                         *)
(* Strings that the code transforms (targets: strip, lower, phone          *)
(* normalisation; passwords: trim, min_length; ids and timestamps in       *)
(* tokens) are sequences of one-character strings; strings that are only   *)
(* compared (codes, purposes, messages) are plain strings.                 *)
(* Time is the cache's and the signer's clock, in seconds.                 *)
(***************************************************************************)
EXTENDS Integers, Sequences, FiniteSets, TLC

VARIABLES
    cache,      \* Django cache: key "otp:"+target -> [data, expiry]
    now,        \* wall clock, seconds
    ret,        \* the last OTPService call: its arguments, the return statement it
                \* left by, and whether it returned True (send_otp) or the challenge
                \* data rather than None (verify_otp)
    hist,       \* history, per target: the code of the last challenge issued, the
                \* codes compared against it and the verifies it satisfied
    users,      \* the CustomUser table: id -> row
    nextId,     \* the next AutoField id
    session,    \* the Django session store: session key -> flow keys
    tokens,     \* the reset token the client holds (the one of its latest
                \* verification), with the id it was minted for
    used,       \* history: the successes of password_reset_set with the token held
    resp        \* the last HTTP exchange: endpoint, request body, status, response body

vars == <<cache, now, ret, hist, users, nextId, session, tokens, used, resp>>

flowVars == <<users, nextId, session, tokens, used, resp>>

----------------------------------------------------------------------------
(* Bounds of the model *)

\* the clock stops at MaxTime (ServiceMaxTime when the service is called directly)
MaxTime == 420
ServiceMaxTime == 240
\* one Tick advances the clock by TickSeconds
TickSeconds == 100

(* Program constants *)

OTP_TTL_SECONDS == 120
MAX_OTP_ATTEMPTS == 5

----------------------------------------------------------------------------
(* Strings *)

E1 == <<"a", "@", "x", ".", "i", "o">>
P1 == <<"+", "9", "8", "9", "1", "2", "0", "0", "0", "0", "0", "0", "1">>

\* the normalized identifiers of the model: one email, one phone number
Targets == {E1, P1}

\* the target the service is called with when it is called directly
ServiceTargets == {E1}

\* OTPPurpose.values
OTPPurpose == {"register", "login", "reset_password"}

\* _generate_code: six random digits; two of the 10^6 values stand for all
generate_code == {"482913", "000000"}

\* codes a caller submits: each is the stored code or is not
SubmittedCodes == generate_code

\* the code _generate_code draws inside the HTTP flows
FlowCodes == {"482913"}

----------------------------------------------------------------------------
(* The cache backend *)

\* cache.get(key): the stored value, or None ({}) when absent or expired
cache_get(c, t, clock) ==
    IF t \in DOMAIN c /\ c[t].expiry > clock THEN {c[t].data} ELSE {}

\* cache.delete(key)
cache_delete(c, t) == [x \in (DOMAIN c) \ {t} |-> c[x]]

\* cache.set(key, value, timeout): overwrites; a timeout <= 0 removes the key
cache_set(c, t, value, timeout, clock) ==
    IF timeout <= 0
    THEN cache_delete(c, t)
    ELSE [x \in (DOMAIN c) \cup {t} |->
            IF x = t THEN [data |-> value, expiry |-> clock + timeout] ELSE c[x]]

\* a cache.ttl that answers the full lifetime (the rewrite would refresh the clock)
cache_ttl_fresh(c, t, clock) == OTP_TTL_SECONDS

\* cache.ttl(key): seconds the key has left, 0 when absent
cache_ttl(c, t, clock) ==
    IF t \in DOMAIN c /\ c[t].expiry > clock THEN c[t].expiry - clock ELSE 0

\* the backend drops expired keys
expire(c, clock) == [x \in {y \in DOMAIN c : c[y].expiry > clock} |-> c[x]]

----------------------------------------------------------------------------
(* OTPService *)

\* a send_otp without the cooldown test of line 103
send_otp_overwrite(c, clock, target, purpose, code) ==
    [cache |-> cache_set(c, target,
                         [code |-> code, purpose |-> purpose, attempts |-> 0],
                         OTP_TTL_SECONDS, clock),
     ret |-> TRUE]

\* send_otp(target, purpose, channel) with the code _generate_code drew:
\* the cache afterwards and the returned bool
send_otp(c, clock, target, purpose, code) ==
    IF cache_get(c, target, clock) # {}
    THEN [cache |-> c, ret |-> FALSE]
    ELSE [cache |-> cache_set(c, target,
                              [code |-> code, purpose |-> purpose, attempts |-> 0],
                              OTP_TTL_SECONDS, clock),
          ret |-> TRUE]

\* verify_otp with one line changed: what(...) says which
verify_otp_variant(c, clock, target, code, purpose, variant) ==
    LET got == cache_get(c, target, clock) IN
    IF got = {}
    THEN [cache |-> c, ret |-> {}, path |-> "absent"]
    ELSE LET otp_data == CHOOSE d \in got : TRUE
             bumped == cache_set(c, target, [otp_data EXCEPT !.attempts = @ + 1],
                                 cache_ttl(c, target, clock), clock)
         IN
         IF otp_data.purpose # purpose
         THEN [cache |-> IF variant = "purpose counts" THEN bumped ELSE c,
               ret |-> {}, path |-> "purpose"]
         ELSE IF (IF variant = "off by one"
                  THEN otp_data.attempts > MAX_OTP_ATTEMPTS
                  ELSE otp_data.attempts >= MAX_OTP_ATTEMPTS)
         THEN [cache |-> IF variant = "no purge" THEN c ELSE cache_delete(c, target),
               ret |-> {}, path |-> "exhausted"]
         ELSE IF otp_data.code = code
         THEN [cache |-> IF variant = "no delete" THEN c ELSE cache_delete(c, target),
               ret |-> {otp_data}, path |-> "match"]
         ELSE [cache |-> bumped, ret |-> {}, path |-> "mismatch"]

\* line 159 without cache.delete
verify_otp_no_delete(c, clock, target, code, purpose) ==
    verify_otp_variant(c, clock, target, code, purpose, "no delete")

\* line 155 without cache.delete
verify_otp_no_purge(c, clock, target, code, purpose) ==
    verify_otp_variant(c, clock, target, code, purpose, "no purge")

\* line 154 with > for >=
verify_otp_off_by_one(c, clock, target, code, purpose) ==
    verify_otp_variant(c, clock, target, code, purpose, "off by one")

\* line 151 falling through to the increment of line 162
verify_otp_purpose_counts(c, clock, target, code, purpose) ==
    verify_otp_variant(c, clock, target, code, purpose, "purpose counts")

\* lines 154-156 moved before lines 151-152: exhaustion tested before the purpose
verify_otp_exhaustion_first(c, clock, target, code, purpose) ==
    LET got == cache_get(c, target, clock)
        otp_data == CHOOSE d \in got : TRUE
    IN  IF got # {} /\ otp_data.attempts >= MAX_OTP_ATTEMPTS
        THEN [cache |-> cache_delete(c, target), ret |-> {}, path |-> "exhausted"]
        ELSE verify_otp_variant(c, clock, target, code, purpose, "code")

\* verify_otp(target, code, purpose): the cache afterwards, the returned
\* Optional[dict] (a set of at most one) and the return statement taken
verify_otp(c, clock, target, code, purpose) ==
    LET got == cache_get(c, target, clock) IN
    IF got = {}
    THEN [cache |-> c, ret |-> {}, path |-> "absent"]
    ELSE LET otp_data == CHOOSE d \in got : TRUE IN
         IF otp_data.purpose # purpose
         THEN [cache |-> c, ret |-> {}, path |-> "purpose"]
         ELSE IF otp_data.attempts >= MAX_OTP_ATTEMPTS
         THEN [cache |-> cache_delete(c, target), ret |-> {}, path |-> "exhausted"]
         ELSE IF otp_data.code = code
         THEN [cache |-> cache_delete(c, target), ret |-> {otp_data}, path |-> "match"]
         ELSE [cache |-> cache_set(c, target,
                                   [otp_data EXCEPT !.attempts = @ + 1],
                                   cache_ttl(c, target, clock), clock),
               ret |-> {}, path |-> "mismatch"]

\* the history of one verify_otp call on target t
VerifyHistory(t, r) ==
    hist' = [hist EXCEPT
                ![t].compared = IF r.path \in {"match", "mismatch"} THEN @ + 1 ELSE @,
                ![t].consumed = IF r.ret # {} THEN @ + 1 ELSE @]

\* the history of one send_otp call on target t that drew code
SendHistory(t, code, r) ==
    hist' = IF r.ret
            THEN [hist EXCEPT ![t] = [code |-> code, compared |-> 0, consumed |-> 0]]
            ELSE hist

NoHistory == [t \in Targets |-> [code |-> "", compared |-> 0, consumed |-> 0]]

NoCall == [op |-> "none", target |-> <<>>, code |-> "", purpose |-> "",
           ok |-> FALSE, path |-> "none"]

----------------------------------------------------------------------------
(* The service called directly *)

ServiceSend(t, p) ==
    \E code \in generate_code :
        LET r == send_otp(cache, now, t, p, code) IN
        /\ cache' = r.cache
        /\ ret' = [op |-> "send_otp", target |-> t, code |-> "", purpose |-> p,
                   ok |-> r.ret, path |-> IF r.ret THEN "sent" ELSE "cooldown"]
        /\ SendHistory(t, code, r)
        /\ UNCHANGED <<now, flowVars>>

ServiceVerify(t, code, p) ==
    LET r == verify_otp(cache, now, t, code, p) IN
    /\ cache' = r.cache
    /\ ret' = [op |-> "verify_otp", target |-> t, code |-> code, purpose |-> p,
               ok |-> r.ret # {}, path |-> r.path]
    /\ VerifyHistory(t, r)
    /\ UNCHANGED <<now, flowVars>>

\* no HTTP exchange
NoResp == [endpoint |-> "none", request |-> <<>>, status |-> 0, detail |-> {}]

\* time passes; expired keys leave the cache
TickTo(seconds, limit) ==
    /\ now + seconds <= limit
    /\ now' = now + seconds
    /\ cache' = expire(cache, now')
    /\ ret' = NoCall
    /\ resp' = NoResp
    /\ UNCHANGED <<hist, users, nextId, session, tokens, used>>

ServiceTick == TickTo(TickSeconds, ServiceMaxTime)

NoUsers == [u \in {} |-> 0]

\* the browser sessions of the model
Sessions == {"s1", "s2"}

\* the session whose requests the single-client specifications follow
OneSession == {"s1"}

\* a session without flow keys (an absent key reads as None: the empty string)
NoFlow == [otp_target |-> <<>>, otp_purpose |-> "", reset_target |-> <<>>,
           reset_user_id |-> 0, change_identifier_target |-> <<>>]

\* an empty cache, an empty user table, sessions without flow keys
Init ==
    /\ cache = [x \in {} |-> 0]
    /\ now = 0
    /\ ret = NoCall
    /\ hist = NoHistory
    /\ users = NoUsers
    /\ nextId = 1
    /\ session = [s \in Sessions |-> NoFlow]
    /\ tokens = {}
    /\ used = [k \in {} |-> 0]
    /\ resp = NoResp

NextService ==
    \/ \E t \in ServiceTargets, p \in OTPPurpose : ServiceSend(t, p)
    \/ \E t \in ServiceTargets, code \in SubmittedCodes, p \in OTPPurpose : ServiceVerify(t, code, p)
    \/ ServiceTick

SpecService == Init /\ [][NextService]_vars

----------------------------------------------------------------------------
(* Strings as the code transforms them *)

Whitespace == {" "}
Digits == {"0", "1", "2", "3", "4", "5", "6", "7", "8", "9"}

RECURSIVE lstrip(_)
lstrip(v) == IF v # <<>> /\ Head(v) \in Whitespace THEN lstrip(Tail(v)) ELSE v

RECURSIVE rstrip(_)
rstrip(v) ==
    IF v # <<>> /\ v[Len(v)] \in Whitespace THEN rstrip(SubSeq(v, 1, Len(v) - 1)) ELSE v

\* str.strip()
strip(v) == rstrip(lstrip(v))

\* str.lower() on one character of the model's alphabet
lower_char(ch) ==
    CASE ch = "A" -> "a"
      [] ch = "X" -> "x"
      [] ch = "I" -> "i"
      [] ch = "O" -> "o"
      [] OTHER -> ch

RECURSIVE lower(_)
\* str.lower()
lower(v) == IF v = <<>> THEN <<>> ELSE <<lower_char(Head(v))>> \o lower(Tail(v))

\* "@" in value
has_at(v) == \E i \in 1..Len(v) : v[i] = "@"

\* str.startswith
startswith(v, prefix) == Len(v) >= Len(prefix) /\ SubSeq(v, 1, Len(prefix)) = prefix

IsDigit(ch) == ch \in Digits

\* normalize_iran_phone: both returns of lines 93-96 give "+98" and the digits left
normalize_iran_phone(value) ==
    IF value = <<>>
    THEN value
    ELSE LET digits0 == SelectSeq(value, IsDigit)
             digits1 == IF startswith(digits0, <<"0">>) THEN Tail(digits0) ELSE digits0
             digits2 == IF startswith(digits1, <<"9", "8">>)
                        THEN SubSeq(digits1, 3, Len(digits1))
                        ELSE digits1
         IN  <<"+", "9", "8">> \o digits2

\* serializers.EmailField().run_validation: one "@" between a user part and a
\* dotted domain, no blanks
EmailValid(v) ==
    /\ \A i \in 1..Len(v) : v[i] \notin Whitespace
    /\ \E i \in 2..(Len(v) - 1) :
          /\ v[i] = "@"
          /\ \A j \in 1..Len(v) : v[j] = "@" => j = i
          /\ \E j \in (i + 2)..(Len(v) - 1) : v[j] = "."
          /\ v[i + 1] # "."

\* what a client types for the two identifiers: the email in capitals, the phone
\* number in its local form
E1Typed == <<"A", "@", "X", ".", "i", "o">>
P1Typed == <<"0", "9", "1", "2", "0", "0", "0", "0", "0", "0", "1">>

\* the targets requests carry
RawTargets == {E1, E1Typed, P1Typed}

\* a second mobile number, as typed
P2Typed == <<"0", "9", "1", "2", "0", "0", "0", "0", "0", "0", "2">>

\* further spellings of the two identifiers: blanks around the email, dashes in
\* the mobile number
E1Spaced == <<" ">> \o E1 \o <<" ">>
P1Dashed == <<"0", "9", "1", "2", "-", "0", "0", "0", "-", "0", "0", "0", "1">>

\* a mobile number whose national part begins with 98, in the two forms
\* phone_validator accepts
P3Typed == <<"0", "9", "8", "9", "0", "0", "0", "0", "0", "0", "1">>
P3 == <<"+", "9", "8", "9", "8", "9", "0", "0", "0", "0", "0", "0", "1">>

\* every target a request of the three flows carries
TypedTargets == RawTargets \cup {P2Typed, E1Spaced, P1, P1Dashed, P3Typed, P3}

\* OTPRequestSerializer.validate_target, lines 123-131, on each of them: the value
\* after the CharField's trim, strip().lower() and the phone normalisation
OtpRequestTarget ==
    [raw \in TypedTargets |->
        LET value == lower(strip(strip(raw))) IN
        [blank |-> strip(raw) = <<>>,
         invalid_email |-> has_at(value) /\ ~EmailValid(value),
         value |-> IF has_at(value) THEN value ELSE normalize_iran_phone(value)]]

\* passwords: two of eight characters or more, one too short for min_length=8
PwOld == <<"o", "l", "d", "-", "p", "a", "s", "s">>
PwNew == <<"n", "e", "w", "-", "p", "a", "s", "s", "1">>
PwShort == <<"p", "w">>

----------------------------------------------------------------------------
(* The user table *)

\* at most MaxUsers rows are ever inserted
MaxUsers == 2

\* set_password: the stored hash of a raw password
make_password(raw) == <<"pbkdf2_sha256", raw>>

\* User.objects.filter(email=value).exists() or filter(phone_number=value).exists()
user_exists(us, value) ==
    \E u \in DOMAIN us : us[u].email = value \/ us[u].phone_number = value

\* filter(email=target).first() or filter(phone_number=target).first(): a set of
\* at most one id
user_by_identifier(us, value) ==
    LET by_email == {u \in DOMAIN us : us[u].email = value}
        by_phone == {u \in DOMAIN us : us[u].phone_number = value}
    IN  IF by_email # {} THEN by_email ELSE by_phone

\* the identifiers create_user is given, and the rows it inserts for them
NewEmails == {<<>>, E1Typed}
NewPhones == {<<>>, P1Typed}

\* CustomManager.create_user followed by CustomUser.save: the row inserted
new_user(email, phone_number, password) ==
    [email |-> IF email # <<>> THEN lower(strip(email)) ELSE <<>>,
     phone_number |-> IF phone_number # <<>>
                      THEN normalize_iran_phone(normalize_iran_phone(phone_number))
                      ELSE <<>>,
     password |-> IF password # <<>> THEN make_password(password) ELSE <<>>,
     is_email_verified |-> FALSE,
     is_phone_verified |-> FALSE]

NewUserRow ==
    [a \in NewEmails \X NewPhones \X {<<>>, PwOld} |-> new_user(a[1], a[2], a[3])]

\* the unique constraints of email and phone_number admit the row
unique_ok(us, row) ==
    /\ row.email # <<>> => \A u \in DOMAIN us : us[u].email # row.email
    /\ row.phone_number # <<>> => \A u \in DOMAIN us : us[u].phone_number # row.phone_number

\* create_user(password, email=..., phone_number=...), from the shell or the admin
CreateUser(email, phone_number, password) ==
    /\ nextId <= MaxUsers
    /\ email # <<>> \/ phone_number # <<>>
    /\ LET row == NewUserRow[<<email, phone_number, password>>] IN
       /\ unique_ok(users, row)
       /\ users' = [u \in DOMAIN users \cup {nextId} |->
                       IF u = nextId THEN row ELSE users[u]]
    /\ nextId' = nextId + 1
    /\ resp' = NoResp
    /\ UNCHANGED <<cache, now, ret, hist, session, tokens, used>>

\* the admin site deletes a user
DeleteUser(u) ==
    /\ u \in DOMAIN users
    /\ users' = [x \in DOMAIN users \ {u} |-> users[x]]
    /\ resp' = NoResp
    /\ UNCHANGED <<cache, now, ret, hist, nextId, session, tokens, used>>

----------------------------------------------------------------------------
(* POST otp/request *)

\* the purposes a request body can carry: the choices and one that is none
RequestPurposes == OTPPurpose \cup {"change_identifier"}

\* OTPRequestSerializer without the existence rule
OTPRequestSerializer_no_rule(us, raw, purpose) ==
    [target |-> OtpRequestTarget[raw].value,
     errors |-> (IF OtpRequestTarget[raw].blank THEN {"This field may not be blank."}
                 ELSE IF OtpRequestTarget[raw].invalid_email
                 THEN {"Enter a valid email address."}
                 ELSE {})
                \cup (IF purpose \in OTPPurpose THEN {} ELSE {"is not a valid choice."})]

\* OTPRequestSerializer: the validated target and the errors of is_valid
OTPRequestSerializer(us, raw, purpose) ==
    LET target == OtpRequestTarget[raw].value
        exists == user_exists(us, target)
        target_errors ==
            IF OtpRequestTarget[raw].blank THEN {"This field may not be blank."}
            ELSE IF OtpRequestTarget[raw].invalid_email
            THEN {"Enter a valid email address."}
            ELSE IF purpose = "register" /\ exists
            THEN {"A user with this identifier already exists."}
            ELSE IF purpose = "login" /\ ~exists
            THEN {"No user found with this identifier."}
            ELSE {}
        purpose_errors ==
            IF purpose \in OTPPurpose THEN {} ELSE {"is not a valid choice."}
    IN  [target |-> target, errors |-> target_errors \cup purpose_errors]

\* otp_request writing the session before it looks at what send_otp returned
otp_request_session_first(us, c, clock, sess, raw, purpose, code) ==
    LET ser == OTPRequestSerializer(us, raw, purpose) IN
    IF ser.errors # {}
    THEN [status |-> 400, body |-> ser.errors, cache |-> c, session |-> sess, sent |-> FALSE]
    ELSE LET r == send_otp(c, clock, ser.target, purpose, code)
             written == [sess EXCEPT !.otp_target = ser.target, !.otp_purpose = purpose]
         IN
         IF ~r.ret
         THEN [status |-> 429, body |-> {"Please wait before requesting a new OTP."},
               cache |-> r.cache, session |-> written, sent |-> FALSE]
         ELSE [status |-> 200, body |-> {"OTP sent successfully."},
               cache |-> r.cache, session |-> written, sent |-> TRUE]

\* AuthViewSet.otp_request for session s: the response, the cache and the
\* session afterwards
otp_request(us, c, clock, sess, raw, purpose, code) ==
    LET ser == OTPRequestSerializer(us, raw, purpose) IN
    IF ser.errors # {}
    THEN [status |-> 400, body |-> ser.errors, cache |-> c, session |-> sess, sent |-> FALSE]
    ELSE LET r == send_otp(c, clock, ser.target, purpose, code) IN
         IF ~r.ret
         THEN [status |-> 429, body |-> {"Please wait before requesting a new OTP."},
               cache |-> r.cache, session |-> sess, sent |-> FALSE]
         ELSE [status |-> 200, body |-> {"OTP sent successfully."},
               cache |-> r.cache,
               session |-> [sess EXCEPT !.otp_target = ser.target,
                                        !.otp_purpose = purpose],
               sent |-> TRUE]

\* one otp_request of session s in which _generate_code draws this code
OtpRequestCode(s, raw, purpose, code) ==
    LET r == otp_request(users, cache, now, session[s], raw, purpose, code) IN
    /\ cache' = r.cache
    /\ session' = [session EXCEPT ![s] = r.session]
    /\ resp' = [endpoint |-> "otp_request",
                request |-> [target |-> raw, purpose |-> purpose],
                status |-> r.status, detail |-> r.body]
    /\ UNCHANGED <<now, ret, hist, users, nextId, tokens, used>>

OtpRequest(s, raw, purpose) ==
    \E code \in FlowCodes : OtpRequestCode(s, raw, purpose, code)

Tick == TickTo(TickSeconds, MaxTime)

Next ==
    \/ \E e \in NewEmails, ph \in NewPhones : CreateUser(e, ph, PwOld)
    \/ \E u \in 1..MaxUsers : DeleteUser(u)
    \/ \E s \in OneSession, raw \in RawTargets, p \in RequestPurposes : OtpRequest(s, raw, p)
    \/ Tick

Spec == Init /\ [][Next]_vars

----------------------------------------------------------------------------
(* The continuation token signer: TimestampSigner(salt="password-reset-salt") *)

RESET_SALT == "password-reset-salt"
RESET_MAX_AGE == 300

DecimalDigits == <<"0", "1", "2", "3", "4", "5", "6", "7", "8", "9">>

RECURSIVE str(_)
\* str(user_id): the decimal digits of an id
str(n) ==
    IF n < 10
    THEN <<DecimalDigits[n + 1]>>
    ELSE str(n \div 10) \o <<DecimalDigits[(n % 10) + 1]>>

RECURSIVE int(_)
\* the id a decimal string names, as User.objects.get(id=user_id) reads it
int(v) ==
    IF v = <<>>
    THEN 0
    ELSE 10 * int(SubSeq(v, 1, Len(v) - 1))
         + (CHOOSE d \in 0..9 : DecimalDigits[d + 1] = v[Len(v)])

\* the alphabet of the signer's timestamps
B62 == <<"0", "1", "2", "3", "4", "5", "6", "7", "8", "9",
         "A", "B", "C", "D", "E", "F", "G", "H", "I", "J", "K", "L", "M",
         "N", "O", "P", "Q", "R", "S", "T", "U", "V", "W", "X", "Y", "Z",
         "a", "b", "c", "d", "e", "f", "g", "h", "i", "j", "k", "l", "m",
         "n", "o", "p", "q", "r", "s", "t", "u", "v", "w", "x", "y", "z">>

RECURSIVE b62_encode(_)
b62_encode(n) ==
    IF n < Len(B62)
    THEN <<B62[n + 1]>>
    ELSE b62_encode(n \div Len(B62)) \o <<B62[(n % Len(B62)) + 1]>>

RECURSIVE b62_decode(_)
b62_decode(v) ==
    IF v = <<>>
    THEN 0
    ELSE Len(B62) * b62_decode(SubSeq(v, 1, Len(v) - 1))
         + (CHOOSE d \in 0..(Len(B62) - 1) : B62[d + 1] = v[Len(v)])

\* Signer.signature: the keyed hash of "value:timestamp" under a salt; only the
\* holder of SECRET_KEY computes it
Signature(salt, value, timestamp) ==
    [key |-> "SECRET_KEY", salt |-> salt, value |-> value, timestamp |-> timestamp]

\* signer.sign(value) at clock: the token "value:timestamp:signature", kept as
\* its three parts
sign(value, clock) ==
    LET timestamp == b62_encode(clock) IN
    [value |-> value, timestamp |-> timestamp,
     sig |-> Signature(RESET_SALT, value, timestamp)]

\* unsign that takes a token of age max_age for expired
unsign_exclusive(token, max_age, clock) ==
    IF token.sig # Signature(RESET_SALT, token.value, token.timestamp)
    THEN [error |-> "BadSignature", value |-> <<>>]
    ELSE IF clock - b62_decode(token.timestamp) >= max_age
    THEN [error |-> "SignatureExpired", value |-> <<>>]
    ELSE [error |-> "", value |-> token.value]

\* signer.unsign(token, max_age) at clock: the signature is checked first, then
\* the age; the value only when both pass
unsign(token, max_age, clock) ==
    IF token.sig # Signature(RESET_SALT, token.value, token.timestamp)
    THEN [error |-> "BadSignature", value |-> <<>>]
    ELSE IF clock - b62_decode(token.timestamp) > max_age
    THEN [error |-> "SignatureExpired", value |-> <<>>]
    ELSE [error |-> "", value |-> token.value]

\* what a client without SECRET_KEY can make of the token it holds: another
\* user's id as payload, the present time as timestamp, the signature of
\* another salt; and a token of its own making when it holds none
Forged(held, clock) ==
    LET payload == {[tk EXCEPT !.value = str((int(tk.value) % MaxUsers) + 1)] : tk \in held}
        timestamp == {[tk EXCEPT !.timestamp = b62_encode(clock)] : tk \in held}
        signature == {[tk EXCEPT !.sig = Signature("other-salt", tk.value, tk.timestamp)] :
                         tk \in held}
        invented == IF held # {} THEN {}
                    ELSE {[value |-> str(1), timestamp |-> b62_encode(clock),
                           sig |-> Signature("other-salt", str(1), b62_encode(clock))]}
    IN  (payload \cup timestamp \cup signature \cup invented) \ held

----------------------------------------------------------------------------
(* The password reset flow *)

\* PasswordResetRequestSerializer.validate_target on each raw target: the
\* CharField's trim, then the value as sent (an email) or the normalized phone
ResetRequestTarget ==
    [raw \in TypedTargets |->
        LET value == strip(raw) IN
        [blank |-> value = <<>>,
         invalid_email |-> has_at(value) /\ ~EmailValid(value),
         value |-> IF has_at(value) THEN value ELSE normalize_iran_phone(value)]]

\* AuthViewSet.password_reset_request for one session
password_reset_request(us, c, clock, sess, raw, code) ==
    LET target == ResetRequestTarget[raw].value
        errors ==
            IF ResetRequestTarget[raw].blank THEN {"This field may not be blank."}
            ELSE IF ResetRequestTarget[raw].invalid_email
            THEN {"Enter a valid email address."}
            ELSE IF ~user_exists(us, target)
            THEN {"No user found with this identifier."}
            ELSE {}
    IN  IF errors # {}
        THEN [status |-> 400, body |-> errors, cache |-> c, session |-> sess]
        ELSE LET r == send_otp(c, clock, target, "reset_password", code) IN
             IF ~r.ret
             THEN [status |-> 429, body |-> {"Please wait before requesting a new OTP."},
                   cache |-> r.cache, session |-> sess]
             ELSE [status |-> 200, body |-> {"Password reset OTP sent."},
                   cache |-> r.cache,
                   session |-> [sess EXCEPT !.reset_target = target]]

PasswordResetRequest(s, raw) ==
    \E code \in FlowCodes :
        LET r == password_reset_request(users, cache, now, session[s], raw, code) IN
        /\ cache' = r.cache
        /\ session' = [session EXCEPT ![s] = r.session]
        /\ resp' = [endpoint |-> "password_reset_request",
                    request |-> [target |-> raw],
                    status |-> r.status, detail |-> r.body]
        /\ UNCHANGED <<now, ret, hist, users, nextId, tokens, used>>

\* password_reset_verify without the call of verify_otp (serializers.py 525-529)
password_reset_verify_unverified(us, c, clock, sess, code) ==
    LET user == user_by_identifier(us, sess.reset_target)
        user_id == CHOOSE u \in user : TRUE
    IN  IF sess.reset_target = <<>> \/ user = {}
        THEN [status |-> 400, body |-> {"No active password reset request found."},
              cache |-> c, session |-> sess, reset_token |-> {}, user_id |-> 0]
        ELSE [status |-> 200,
              body |-> {"Code verified. You can now set a new password."},
              cache |-> c,
              session |-> [sess EXCEPT !.reset_target = <<>>, !.reset_user_id = 0],
              reset_token |-> {sign(str(user_id), clock)},
              user_id |-> user_id]

\* AuthViewSet.password_reset_verify with PasswordResetVerifySerializer.validate:
\* the response, the cache and the session afterwards, the token minted
password_reset_verify(us, c, clock, sess, code) ==
    LET target == sess.reset_target IN
    IF target = <<>>
    THEN [status |-> 400, body |-> {"No active password reset request found."},
          cache |-> c, session |-> sess, reset_token |-> {}, user_id |-> 0]
    ELSE LET r == verify_otp(c, clock, target, code, "reset_password") IN
         IF r.ret = {}
         THEN [status |-> 400, body |-> {"Invalid or expired OTP."},
               cache |-> r.cache, session |-> sess, reset_token |-> {}, user_id |-> 0]
         ELSE LET user == user_by_identifier(us, target) IN
              IF user = {}
              THEN [status |-> 400, body |-> {"User not found."},
                    cache |-> r.cache, session |-> sess, reset_token |-> {}, user_id |-> 0]
              ELSE LET user_id == CHOOSE u \in user : TRUE IN
                   [status |-> 200,
                    body |-> {"Code verified. You can now set a new password."},
                    cache |-> r.cache,
                    session |-> [sess EXCEPT !.reset_target = <<>>, !.reset_user_id = 0],
                    reset_token |-> {sign(str(user_id), clock)},
                    user_id |-> user_id]

\* the tokens held, without their history
Held == {h.token : h \in tokens}

PasswordResetVerify(s, code) ==
    LET r == password_reset_verify(users, cache, now, session[s], code)
        minted == {[token |-> tk, user_id |-> r.user_id] : tk \in r.reset_token}
    IN
    /\ cache' = r.cache
    /\ session' = [session EXCEPT ![s] = r.session]
    /\ tokens' = IF minted # {} THEN minted ELSE tokens
    /\ used' = [k \in DOMAIN used \cap {h.token : h \in tokens'} |-> used[k]]
    /\ resp' = [endpoint |-> "password_reset_verify",
                request |-> [code |-> code],
                status |-> r.status, detail |-> r.body]
    /\ UNCHANGED <<now, ret, hist, users, nextId>>

\* a password as typed with a trailing blank
PwNewTyped == PwNew \o <<" ">>

\* the password and password_confirm of the requests: equal, equal once
\* trimmed, different, too short
PasswordPairs ==
    {<<PwOld, PwOld>>, <<PwNew, PwNewTyped>>, <<PwNew, PwOld>>, <<PwShort, PwShort>>}

\* PasswordResetSetPasswordSerializer on each pair: the fields after the
\* CharField's trim, min_length=8 on password, then validate()
PasswordResetSetPasswordSerializer ==
    [pair \in PasswordPairs |->
        LET password == strip(pair[1])
            password_confirm == strip(pair[2])
            field_errors ==
                (IF password = <<>> \/ password_confirm = <<>>
                 THEN {"This field may not be blank."} ELSE {})
                \cup (IF password # <<>> /\ Len(password) < 8
                      THEN {"Ensure this field has at least 8 characters."} ELSE {})
        IN  [password |-> password,
             errors |-> IF field_errors # {} THEN field_errors
                        ELSE IF password # password_confirm
                        THEN {"Passwords do not match."}
                        ELSE {}]]

\* CustomUser.save: the identifiers are normalized again on every save
save(row) ==
    [row EXCEPT !.email = IF @ # <<>> THEN lower(strip(@)) ELSE @,
                !.phone_number = IF @ # <<>> THEN normalize_iran_phone(@) ELSE @]

\* password_reset_set without the comparison of the two passwords
password_reset_set_unmatched(us, clock, pair, reset_token) ==
    LET r == unsign(reset_token, RESET_MAX_AGE, clock)
        user_id == int(r.value)
    IN  IF r.error = "" /\ user_id \in DOMAIN us
        THEN [status |-> 200, body |-> {"Password has been reset successfully."},
              users |-> [us EXCEPT ![user_id] =
                            save([@ EXCEPT !.password = make_password(strip(pair[1]))])]]
        ELSE [status |-> 400, body |-> {"Invalid password reset link."}, users |-> us]

\* password_reset_set that refuses a token it has succeeded with
password_reset_set_once(us, clock, pair, reset_token) ==
    LET r == unsign(reset_token, RESET_MAX_AGE, clock)
        user_id == int(r.value)
    IN  IF /\ PasswordResetSetPasswordSerializer[pair].errors = {}
           /\ r.error = "" /\ user_id \in DOMAIN us
           /\ reset_token \notin DOMAIN used
        THEN [status |-> 200, body |-> {"Password has been reset successfully."},
              users |-> [us EXCEPT ![user_id] =
                            save([@ EXCEPT !.password = make_password(strip(pair[1]))])]]
        ELSE [status |-> 400, body |-> {"Invalid password reset link."}, users |-> us]

\* AuthViewSet.password_reset_set: the response and the user table afterwards
password_reset_set(us, clock, pair, reset_token) ==
    LET ser == PasswordResetSetPasswordSerializer[pair] IN
    IF ser.errors # {}
    THEN [status |-> 400, body |-> ser.errors, users |-> us]
    ELSE LET r == unsign(reset_token, RESET_MAX_AGE, clock) IN
         IF r.error = "SignatureExpired"
         THEN [status |-> 400, body |-> {"Password reset link has expired."}, users |-> us]
         ELSE IF r.error = "BadSignature"
         THEN [status |-> 400, body |-> {"Invalid password reset link."}, users |-> us]
         ELSE LET user_id == int(r.value) IN
              IF user_id \notin DOMAIN us
              THEN [status |-> 404, body |-> {"User not found."}, users |-> us]
              ELSE [status |-> 200, body |-> {"Password has been reset successfully."},
                    users |-> [us EXCEPT ![user_id] =
                                  save([@ EXCEPT !.password = make_password(ser.password)])]]

\* the history of one password_reset_set: the successes of each token, counted to two
UsedHistory(reset_token, r) ==
    used' = IF r.status # 200 THEN used
            ELSE [k \in DOMAIN used \cup {reset_token} |->
                     IF k # reset_token THEN used[k]
                     ELSE IF k \in DOMAIN used THEN 2 ELSE 1]

PasswordResetSet(pair, reset_token) ==
    LET r == password_reset_set(users, now, pair, reset_token) IN
    /\ users' = r.users
    /\ UsedHistory(reset_token, r)
    /\ resp' = [endpoint |-> "password_reset_set",
                request |-> [password |-> pair[1], password_confirm |-> pair[2],
                             reset_token |-> reset_token],
                status |-> r.status, detail |-> r.body]
    /\ UNCHANGED <<cache, now, ret, hist, nextId, session, tokens>>

\* the reset flow is followed in steps of half the token's lifetime, until
\* a token minted at the start has expired
ResetTickSeconds == 150
ResetMaxTime == 450

ResetTick == TickTo(ResetTickSeconds, ResetMaxTime)

\* the targets of the reset requests: the email of a user as stored and as typed
ResetTargets == {E1, E1Typed}

NextReset ==
    \/ CreateUser(E1Typed, <<>>, PwOld)
    \/ CreateUser(<<>>, P1Typed, PwOld)
    \/ \E u \in 1..MaxUsers : DeleteUser(u)
    \/ \E s \in OneSession, raw \in ResetTargets : PasswordResetRequest(s, raw)
    \/ \E s \in OneSession, code \in FlowCodes : PasswordResetVerify(s, code)
    \/ \E pair \in PasswordPairs, tk \in Held \cup Forged(Held, now) :
           PasswordResetSet(pair, tk)
    \/ ResetTick

SpecReset == Init /\ [][NextReset]_vars

----------------------------------------------------------------------------
(* POST otp/verify *)

\* CustomManager.find_by_identifier: the user whose email is the identifier or
\* whose phone number is its normal form, a set of at most one id
find_by_identifier(us, identifier) ==
    user_by_identifier(us, IF has_at(identifier) THEN identifier
                           ELSE normalize_iran_phone(identifier))

\* CustomManager.get_or_create_by_identifier: the user found, or a new user whose
\* only identifier is this one, verified, without a usable password
get_or_create_by_identifier(us, id, identifier) ==
    LET found == find_by_identifier(us, identifier) IN
    IF found # {}
    THEN [users |-> us, nextId |-> id, user |-> found, created |-> FALSE]
    ELSE LET row == save([email |-> IF has_at(identifier) THEN identifier ELSE <<>>,
                          phone_number |-> IF has_at(identifier) THEN <<>> ELSE identifier,
                          password |-> <<>>,
                          is_email_verified |-> has_at(identifier),
                          is_phone_verified |-> ~has_at(identifier)])
         IN  [users |-> [u \in DOMAIN us \cup {id} |-> IF u = id THEN row ELSE us[u]],
              nextId |-> id + 1, user |-> {id}, created |-> TRUE]

\* get_tokens_for_user: RefreshToken.for_user(user), both tokens carry the user's id
get_tokens_for_user(user_id) ==
    {[refresh |-> <<"r">> \o str(user_id), access |-> <<"a">> \o str(user_id)]}

\* an unhandled exception of a view: Django answers 500
ServerError(exception) == [status |-> 500, body |-> {exception}]

\* AuthViewSet.otp_verify with OTPVerifySerializer.validate, and its variants:
\* "no_session_check" verifies whatever the session holds, "unsaved" drops the
\* row a register verification creates
otp_verify_variant(us, id, c, clock, sess, code, variant) ==
    LET target == sess.otp_target
        purpose == sess.otp_purpose
        same == [cache |-> c, session |-> sess, users |-> us, nextId |-> id,
                 tokens |-> {}, user_id |-> 0]
    IN
    IF variant # "no_session_check" /\ (target = <<>> \/ purpose = "")
    THEN same @@ [status |-> 400,
                  body |-> {"No active OTP request found. Please request a new code."}]
    ELSE LET r == verify_otp(c, clock, target, code, purpose) IN
         IF r.ret = {}
         THEN [same EXCEPT !.cache = r.cache] @@
              [status |-> 400, body |-> {"Invalid or expired OTP."}]
         ELSE LET g == IF purpose = "register"
                       THEN get_or_create_by_identifier(us, id, target)
                       ELSE [users |-> us, nextId |-> id,
                             user |-> find_by_identifier(us, target), created |-> FALSE]
              IN
              IF g.user = {}
              \* line 386 reads the local "_" that only line 377 assigns
              THEN [same EXCEPT !.cache = r.cache] @@ ServerError("UnboundLocalError")
              ELSE LET user_id == CHOOSE u \in g.user : TRUE IN
                   [status |-> 200, body |-> {"OTP verified successfully."},
                    cache |-> r.cache,
                    session |-> [sess EXCEPT !.otp_target = <<>>, !.otp_purpose = ""],
                    users |-> IF variant = "unsaved" THEN us ELSE g.users,
                    nextId |-> g.nextId,
                    tokens |-> get_tokens_for_user(user_id),
                    user_id |-> user_id]

otp_verify_no_session_check(us, id, c, clock, sess, code) ==
    otp_verify_variant(us, id, c, clock, sess, code, "no_session_check")

otp_verify_unsaved(us, id, c, clock, sess, code) ==
    otp_verify_variant(us, id, c, clock, sess, code, "unsaved")

\* AuthViewSet.otp_verify for one session: the response, the cache, the session
\* and the user table afterwards
otp_verify(us, id, c, clock, sess, code) ==
    otp_verify_variant(us, id, c, clock, sess, code, "code")

OtpVerify(s, code) ==
    LET r == otp_verify(users, nextId, cache, now, session[s], code) IN
    /\ r.nextId <= MaxUsers + 1
    /\ cache' = r.cache
    /\ session' = [session EXCEPT ![s] = r.session]
    /\ users' = r.users
    /\ nextId' = r.nextId
    /\ resp' = [endpoint |-> "otp_verify",
                request |-> [code |-> code, session |-> session[s]],
                status |-> r.status, detail |-> r.body,
                tokens |-> r.tokens, user_id |-> r.user_id]
    /\ UNCHANGED <<now, ret, hist, tokens, used>>

----------------------------------------------------------------------------
(* The identifier change flow of an authenticated user *)

\* IdentifierChangeRequestSerializer.validate_target on each raw target
ChangeRequestTarget ==
    [raw \in TypedTargets |->
        LET value == lower(strip(strip(raw))) IN
        [blank |-> strip(raw) = <<>>,
         invalid_email |-> has_at(value) /\ ~EmailValid(value),
         value |-> IF has_at(value) THEN value ELSE normalize_iran_phone(value)]]

\* JWTAuthentication: the bearer of a token for user u is that user while the row exists
Unauthorized == [status |-> 401, body |-> {"User not found"}]

\* AuthViewSet.change_identifier_request of user u
change_identifier_request(us, c, clock, sess, u, raw, code) ==
    LET target == ChangeRequestTarget[raw].value
        taken == IF has_at(target)
                 THEN \E x \in DOMAIN us \ {u} : us[x].email = target
                 ELSE \E x \in DOMAIN us \ {u} : us[x].phone_number = target
        errors ==
            IF ChangeRequestTarget[raw].blank THEN {"This field may not be blank."}
            ELSE IF ChangeRequestTarget[raw].invalid_email
            THEN {"Enter a valid email address."}
            ELSE IF taken /\ has_at(target)
            THEN {"This email is already in use by another account."}
            ELSE IF taken
            THEN {"This phone number is already in use by another account."}
            ELSE {}
    IN  IF u \notin DOMAIN us
        THEN [cache |-> c, session |-> sess] @@ Unauthorized
        ELSE IF errors # {}
        THEN [status |-> 400, body |-> errors, cache |-> c, session |-> sess]
        ELSE LET r == send_otp(c, clock, target, "change_identifier", code) IN
             IF ~r.ret
             THEN [status |-> 429, body |-> {"Please wait before requesting a new OTP."},
                   cache |-> r.cache, session |-> sess]
             ELSE [status |-> 200, body |-> {"An OTP has been sent to {target}."},
                   cache |-> r.cache,
                   session |-> [sess EXCEPT !.change_identifier_target = target]]

ChangeIdentifierRequest(s, u, raw) ==
    \E code \in FlowCodes :
        LET r == change_identifier_request(users, cache, now, session[s], u, raw, code) IN
        /\ cache' = r.cache
        /\ session' = [session EXCEPT ![s] = r.session]
        /\ resp' = [endpoint |-> "change_identifier_request",
                    request |-> [user |-> u, target |-> raw],
                    status |-> r.status, detail |-> r.body]
        /\ UNCHANGED <<now, ret, hist, users, nextId, tokens, used>>

\* AuthViewSet.change_identifier_verify of user u in its variants: "code" is the
\* source, "unflagged" leaves the verified flag as it was
change_identifier_verify_variant(us, c, clock, sess, u, code, variant) ==
    LET target == sess.change_identifier_target
        same == [cache |-> c, session |-> sess, users |-> us]
    IN
    IF u \notin DOMAIN us
    THEN same @@ Unauthorized
    ELSE IF target = <<>>
    THEN same @@ [status |-> 400,
                  body |-> {"No active change request found. Please start over."}]
    ELSE LET r == verify_otp(c, clock, target, code, "change_identifier") IN
         IF r.ret = {}
         THEN [same EXCEPT !.cache = r.cache] @@
              [status |-> 400, body |-> {"Invalid or expired OTP."}]
         ELSE LET row == save(IF has_at(target)
                              THEN [us[u] EXCEPT !.email = target,
                                                 !.is_email_verified =
                                                     @ \/ variant # "unflagged"]
                              ELSE [us[u] EXCEPT !.phone_number = target,
                                                 !.is_phone_verified =
                                                     @ \/ variant # "unflagged"])
              IN
              \* user.save() against the unique constraints of the table
              IF ~unique_ok([x \in DOMAIN us \ {u} |-> us[x]], row)
              THEN [same EXCEPT !.cache = r.cache] @@ ServerError("IntegrityError")
              ELSE [status |-> 200, body |-> {"profile"},
                    cache |-> r.cache,
                    session |-> [sess EXCEPT !.change_identifier_target = <<>>],
                    users |-> [us EXCEPT ![u] = row]]

change_identifier_verify_unflagged(us, c, clock, sess, u, code) ==
    change_identifier_verify_variant(us, c, clock, sess, u, code, "unflagged")

\* AuthViewSet.change_identifier_verify of user u: the response, the cache, the
\* session and the user table afterwards
change_identifier_verify(us, c, clock, sess, u, code) ==
    change_identifier_verify_variant(us, c, clock, sess, u, code, "code")

ChangeIdentifierVerify(s, u, code) ==
    LET r == change_identifier_verify(users, cache, now, session[s], u, code) IN
    /\ cache' = r.cache
    /\ session' = [session EXCEPT ![s] = r.session]
    /\ users' = r.users
    /\ resp' = [endpoint |-> "change_identifier_verify",
                request |-> [user |-> u, code |-> code],
                status |-> r.status, detail |-> r.body]
    /\ UNCHANGED <<now, ret, hist, nextId, tokens, used>>

----------------------------------------------------------------------------
(* The register and login flow of one client, with the admin site beside it *)

\* the targets of the requests: an email and a phone number as typed
VerifyTargets == {E1Typed, P1Typed}

NextVerify ==
    \/ CreateUser(E1Typed, <<>>, PwOld)
    \/ CreateUser(<<>>, P1Typed, PwOld)
    \/ \E u \in 1..MaxUsers : DeleteUser(u)
    \/ \E s \in OneSession, raw \in VerifyTargets, p \in OTPPurpose : OtpRequest(s, raw, p)
    \/ \E s \in OneSession, code \in FlowCodes : OtpVerify(s, code)
    \/ Tick

SpecVerify == Init /\ [][NextVerify]_vars

----------------------------------------------------------------------------
(* The three flows of one client for one email, with the admin site beside them *)

NextFlows ==
    \/ CreateUser(E1Typed, <<>>, PwOld)
    \/ CreateUser(<<>>, P1Typed, PwOld)
    \/ \E u \in 1..MaxUsers : DeleteUser(u)
    \/ \E s \in OneSession, p \in {"register", "login"} : OtpRequest(s, E1Typed, p)
    \/ \E s \in OneSession, code \in FlowCodes : OtpVerify(s, code)
    \/ \E s \in OneSession, raw \in ResetTargets : PasswordResetRequest(s, raw)
    \/ \E s \in OneSession, code \in FlowCodes : PasswordResetVerify(s, code)
    \/ \E s \in OneSession, u \in 1..MaxUsers : ChangeIdentifierRequest(s, u, E1Typed)
    \/ \E s \in OneSession, u \in 1..MaxUsers, code \in FlowCodes :
           ChangeIdentifierVerify(s, u, code)
    \/ ServiceTick

SpecFlows == Init /\ [][NextFlows]_vars

----------------------------------------------------------------------------
(* POST login *)

\* the login field and the password of the requests as typed: the identifiers
\* of the two users; the password of create_user, the same with a trailing
\* blank, and another one
LoginNames == {E1Typed, P1Typed}
PwOldTyped == PwOld \o <<" ">>
LoginPasswords == {PwOld, PwOldTyped, PwNew}

\* user.check_password(raw): false for a user without a usable password
check_password(row, raw) == row.password # <<>> /\ row.password = make_password(raw)

\* LoginSerializer on each login name: the CharField's trim, strip().lower(),
\* the phone normalisation of a name without "@"
LoginName ==
    [raw \in LoginNames |->
        LET value == lower(strip(strip(raw))) IN
        [blank |-> strip(raw) = <<>>,
         by_email |-> has_at(value),
         value |-> IF has_at(value) THEN value ELSE normalize_iran_phone(value)]]

\* AuthViewSet.login with LoginSerializer.validate, and its variant that skips
\* the test of the verified flags
login_variant(us, raw, password, variant) ==
    LET name == LoginName[raw]
        typed == strip(password)
        user == IF name.by_email
                THEN {u \in DOMAIN us : us[u].email = name.value}
                ELSE {u \in DOMAIN us : us[u].phone_number = name.value}
        none == [tokens |-> {}, user_id |-> 0]
    IN  IF name.blank \/ typed = <<>>
        THEN none @@ [status |-> 400, body |-> {"This field may not be blank."}]
        ELSE IF user = {} \/ \A u \in user : ~check_password(us[u], typed)
        THEN none @@ [status |-> 400, body |-> {"The login information was incorrect."}]
        ELSE LET user_id == CHOOSE u \in user : TRUE IN
             IF /\ variant # "unverified"
                /\ ~(us[user_id].is_email_verified \/ us[user_id].is_phone_verified)
             THEN none @@ [status |-> 400, body |-> {"Account not verified."}]
             ELSE [status |-> 200, body |-> {"Login successful."},
                   tokens |-> get_tokens_for_user(user_id), user_id |-> user_id]

login_unverified(us, raw, password) == login_variant(us, raw, password, "unverified")

\* AuthViewSet.login: the response
login(us, raw, password) == login_variant(us, raw, password, "code")

Login(raw, password) ==
    LET r == login(users, raw, password) IN
    /\ resp' = [endpoint |-> "login",
                request |-> [login |-> raw, password |-> password],
                status |-> r.status, detail |-> r.body,
                tokens |-> r.tokens, user_id |-> r.user_id]
    /\ UNCHANGED <<cache, now, ret, hist, users, nextId, session, tokens, used>>

\* the admin site's change form saves a user with its Verification fields set
AdminSetVerified(u, email_verified, phone_verified) ==
    /\ u \in DOMAIN users
    /\ users' = [users EXCEPT ![u] = save([@ EXCEPT !.is_email_verified = email_verified,
                                                     !.is_phone_verified = phone_verified])]
    /\ resp' = NoResp
    /\ UNCHANGED <<cache, now, ret, hist, nextId, session, tokens, used>>

\* password login beside the admin site and the register flow, which creates
\* verified users without a password
NextLogin ==
    \/ \E e \in NewEmails, ph \in NewPhones : CreateUser(e, ph, PwOld)
    \/ \E u \in 1..MaxUsers : DeleteUser(u)
    \/ \E u \in 1..MaxUsers, e \in BOOLEAN, ph \in BOOLEAN : AdminSetVerified(u, e, ph)
    \/ \E s \in OneSession : OtpRequest(s, E1Typed, "register")
    \/ \E s \in OneSession, code \in FlowCodes : OtpVerify(s, code)
    \/ \E raw \in LoginNames, password \in LoginPasswords : Login(raw, password)

SpecLogin == Init /\ [][NextLogin]_vars

----------------------------------------------------------------------------
(* normalize_iran_phone called on its own *)

\* the ways a number is begun and continued when typed: country code, trunk
\* zero or neither; ten digits of a mobile number, run together or separated,
\* too few, too many, not a mobile prefix, not digits
PhonePrefixes ==
    {<<>>, <<"0">>, <<"+", "9", "8">>, <<"9", "8">>, <<"+", "9", "8", " ">>,
     <<"0", "0", "9", "8">>, <<" ", "0">>, <<"+">>}

PhoneBodies ==
    {<<"9", "1", "2", "0", "0", "0", "0", "0", "0", "1">>,
     <<"9", "3", "5", "0", "0", "0", "0", "0", "0", "1">>,
     <<"9", "1", "2", " ", "0", "0", "0", " ", "0", "0", "0", "1">>,
     <<"9", "1", "2", "-", "0", "0", "0", "-", "0", "0", "0", "1">>,
     <<"9", "1", "2", "0", "0", "0", "0", "0", "0", "1", " ">>,
     <<"9", "1", "2", "0", "0", "0", "0", "0", "0">>,
     <<"9", "1", "2", "-", "0", "0", "0", "-", "0", "0", "0">>,
     <<"9", "1", "2", "0", "0", "0", "0", "0", "0", "1", "2">>,
     <<"9", "8", "9", "0", "0", "0", "0", "0", "0", "1">>,
     <<"8", "1", "2", "0", "0", "0", "0", "0", "0", "1">>,
     <<"2", "1", "1", "2", "3", "4", "5", "6", "7", "8">>,
     <<"9", "1", "2", "0", "0", "0", "0", "0", "0", "x">>,
     <<"x", "-", "i", "o">>,
     <<"9">>,
     <<>>}

PhoneInputs == {prefix \o body : prefix \in PhonePrefixes, body \in PhoneBodies}

\* one call of normalize_iran_phone and what it returns
NormalizePhone(value) ==
    /\ ret' = [op |-> "normalize_iran_phone", value |-> value,
               result |-> normalize_iran_phone(value)]
    /\ UNCHANGED <<cache, now, hist, users, nextId, session, tokens, used, resp>>

NextPhone == \E value \in PhoneInputs : NormalizePhone(value)

SpecPhone == Init /\ [][NextPhone]_vars

----------------------------------------------------------------------------
(* The first two steps of the password reset, with right and wrong codes *)

NextResetVerify ==
    \/ CreateUser(E1Typed, <<>>, PwOld)
    \/ CreateUser(<<>>, P1Typed, PwOld)
    \/ \E u \in 1..MaxUsers : DeleteUser(u)
    \/ \E s \in OneSession : OtpRequest(s, E1Typed, "login")
    \/ \E s \in OneSession, raw \in ResetTargets : PasswordResetRequest(s, raw)
    \/ \E s \in OneSession, code \in SubmittedCodes : PasswordResetVerify(s, code)
    \/ ServiceTick

SpecResetVerify == Init /\ [][NextResetVerify]_vars

----------------------------------------------------------------------------
(* PATCH profile/complete of an authenticated user *)

\* phone_validator: ^(\+98|0)9\d{9}$
phone_validator(value) ==
    \E prefix \in {<<"+", "9", "8">>, <<"0">>} :
        /\ startswith(value, prefix)
        /\ Len(value) = Len(prefix) + 10
        /\ value[Len(prefix) + 1] = "9"
        /\ \A i \in (Len(prefix) + 1)..Len(value) : IsDigit(value[i])

\* request.data of profile/complete: the fields a PATCH carries (partial=True, so
\* none is required)
ProfileRequests ==
    {[phone_number |-> P1Typed], [phone_number |-> P2Typed],
     [email |-> E1Typed, password |-> PwNew], [password |-> PwShort]}

\* ProfileCompletionSerializer.__init__: the identifier fields left writable
writable_fields(row) ==
    {"password"}
        \cup (IF row.email # <<>> THEN {} ELSE {"email"})
        \cup (IF row.email = <<>> /\ row.phone_number # <<>> THEN {} ELSE {"phone_number"})

\* AuthViewSet.profile_complete of user u with ProfileCompletionSerializer in its
\* variants: "code" is the source, "both_flags" marks both identifiers verified
profile_complete_variant(us, u, data, variant) ==
    IF u \notin DOMAIN us THEN [users |-> us] @@ Unauthorized
    ELSE
    LET others == [x \in DOMAIN us \ {u} |-> us[x]]
        given == DOMAIN data \cap writable_fields(us[u])
        \* run_validation of each field: CharField trims, then the validators
        attrs == [f \in given |-> strip(data[f])]
        field_errors ==
            (IF "email" \in given /\ ~EmailValid(attrs.email)
             THEN {"Enter a valid email address."} ELSE {})
            \cup (IF "email" \in given
                     /\ \E x \in DOMAIN others : others[x].email = attrs.email
                  THEN {"user with this email already exists."} ELSE {})
            \cup (IF "phone_number" \in given /\ ~phone_validator(attrs.phone_number)
                  THEN {"Enter a valid Iranian phone number (e.g. +98912xxxxxxx or 0912xxxxxxx)."}
                  ELSE {})
            \cup (IF "phone_number" \in given
                     /\ \E x \in DOMAIN others : others[x].phone_number = attrs.phone_number
                  THEN {"user with this phone number already exists."} ELSE {})
            \cup (IF "password" \in given /\ Len(attrs.password) < 8
                  THEN {"Ensure this field has at least 8 characters."} ELSE {})
        \* validate(attrs)
        email == IF "email" \in given THEN lower(strip(attrs.email)) ELSE <<>>
        phone == IF "phone_number" \in given
                 THEN normalize_iran_phone(attrs.phone_number) ELSE <<>>
        errors ==
            IF email # <<>> /\ us[u].email = <<>>
               /\ \E x \in DOMAIN others : others[x].email = email
            THEN {"This email is already in use."}
            ELSE IF phone # <<>> /\ us[u].phone_number = <<>>
                    /\ \E x \in DOMAIN others : others[x].phone_number = phone
            THEN {"This phone number is already in use."}
            ELSE {}
        \* update(instance, validated_data)
        flagged == IF variant = "both_flags"
                   THEN [us[u] EXCEPT !.is_email_verified = TRUE,
                                      !.is_phone_verified = TRUE]
                   ELSE us[u]
        hashed == IF "password" \in given /\ attrs.password # <<>>
                  THEN [flagged EXCEPT !.password = make_password(attrs.password)]
                  ELSE flagged
        with_email == IF "email" \in given
                      THEN [hashed EXCEPT !.email = attrs.email,
                                          !.is_email_verified = TRUE]
                      ELSE hashed
        row == save(IF "phone_number" \in given
                    THEN [with_email EXCEPT !.phone_number = attrs.phone_number,
                                            !.is_phone_verified = TRUE]
                    ELSE with_email)
    IN  IF field_errors # {} THEN [status |-> 400, body |-> field_errors, users |-> us]
        ELSE IF errors # {} THEN [status |-> 400, body |-> errors, users |-> us]
        \* instance.save() against the unique constraints of the table
        ELSE IF ~unique_ok(others, row)
        THEN [users |-> us] @@ ServerError("IntegrityError")
        ELSE [status |-> 200, body |-> {"profile"}, users |-> [us EXCEPT ![u] = row]]

profile_complete_both_flags(us, u, data) ==
    profile_complete_variant(us, u, data, "both_flags")

\* AuthViewSet.profile_complete of user u: the response and the user table
\* afterwards
profile_complete(us, u, data) == profile_complete_variant(us, u, data, "code")

ProfileComplete(u, data) ==
    LET r == profile_complete(users, u, data) IN
    /\ users' = r.users
    /\ resp' = [endpoint |-> "profile_complete",
                request |-> [user |-> u, data |-> data],
                status |-> r.status, detail |-> r.body]
    /\ UNCHANGED <<cache, now, ret, hist, nextId, session, tokens, used>>

----------------------------------------------------------------------------
(* profile/complete beside registration, the identifier change flow and the admin site *)

\* the targets of the change requests: an email and a mobile number as typed
ChangeRequestTargets == {E1Typed, P2Typed}

NextProfile ==
    \/ \E email \in NewEmails, phone_number \in NewPhones :
           CreateUser(email, phone_number, PwOld)
    \/ \E s \in OneSession : OtpRequest(s, E1Typed, "register")
    \/ \E s \in OneSession, code \in FlowCodes : OtpVerify(s, code)
    \/ \E s \in OneSession, u \in 1..MaxUsers, raw \in ChangeRequestTargets :
           ChangeIdentifierRequest(s, u, raw)
    \/ \E s \in OneSession, u \in 1..MaxUsers, code \in FlowCodes :
           ChangeIdentifierVerify(s, u, code)
    \/ \E u \in 1..MaxUsers, data \in ProfileRequests : ProfileComplete(u, data)

SpecProfile == Init /\ [][NextProfile]_vars

----------------------------------------------------------------------------
(* The identifier change flow beside profile/complete and the admin site *)

\* the requests of profile/complete that add an identifier
ProfileAdditions == {[phone_number |-> P2Typed], [email |-> E1Typed]}

NextChange ==
    \/ CreateUser(E1Typed, <<>>, PwOld)
    \/ CreateUser(<<>>, P1Typed, PwOld)
    \/ \E s \in OneSession, u \in 1..MaxUsers, raw \in ChangeRequestTargets :
           ChangeIdentifierRequest(s, u, raw)
    \/ \E s \in OneSession, u \in 1..MaxUsers, code \in SubmittedCodes :
           ChangeIdentifierVerify(s, u, code)
    \/ \E u \in 1..MaxUsers, data \in ProfileAdditions : ProfileComplete(u, data)

SpecChange == Init /\ [][NextChange]_vars

----------------------------------------------------------------------------
(* The request steps of the three flows, from two clients, over several spellings *)

\* the spellings the register and login requests carry
RequestSpellings == {E1Typed, E1Spaced, P1Typed, P1Dashed}

NextRequests ==
    \/ CreateUser(E1Typed, <<>>, PwOld)
    \/ CreateUser(<<>>, P1Typed, PwOld)
    \/ \E s \in Sessions, raw \in RequestSpellings, p \in {"register", "login"} :
           OtpRequest(s, raw, p)
    \/ \E raw \in {E1Typed, P1Dashed} : PasswordResetRequest("s1", raw)
    \/ \E u \in 1..MaxUsers, raw \in {E1Spaced, P1Typed} :
           ChangeIdentifierRequest("s2", u, raw)
    \/ ServiceTick

SpecRequests == Init /\ [][NextRequests]_vars

----------------------------------------------------------------------------
(* The request steps of one client over the spellings of three identifiers *)

NextSpellings ==
    \/ CreateUser(E1Typed, <<>>, PwOld)
    \/ CreateUser(<<>>, P1Typed, PwOld)
    \/ \E s \in OneSession, raw \in {E1Spaced, P1Typed, P3Typed} :
           OtpRequest(s, raw, "register")
    \/ \E s \in OneSession, raw \in {E1Typed, P1Dashed} : PasswordResetRequest(s, raw)
    \/ \E s \in OneSession, u \in 1..MaxUsers, raw \in {P3Typed, P3} :
           ChangeIdentifierRequest(s, u, raw)

SpecSpellings == Init /\ [][NextSpellings]_vars

----------------------------------------------------------------------------
(* The register and login flow of two clients *)

\* the codes drawn in the two clients' requests differ, so that a challenge
\* tells which client's request issued it
SessionCode == [s \in Sessions |-> IF s = "s1" THEN "482913" ELSE "000000"]

NextSessions ==
    \/ CreateUser(E1Typed, <<>>, PwOld)
    \/ \E s \in Sessions, p \in {"register", "login"} :
           OtpRequestCode(s, E1Typed, p, SessionCode[s])
    \/ OtpRequestCode("s2", P1Typed, "register", SessionCode["s2"])
    \/ \E s \in Sessions, code \in SubmittedCodes : OtpVerify(s, code)
    \/ ServiceTick

SpecSessions == Init /\ [][NextSessions]_vars

----------------------------------------------------------------------------
(* verify_otp called concurrently: every cache operation is one step *)

\* the concurrent callers (worker threads or processes of the server)
Procs == {"p1", "p2"}

\* calls compare at most this many codes against one challenge
MaxCompared == 7

\* a caller between two calls
Idle == [pc |-> "idle", code |-> "", otp_data |-> {}, timeout |-> 0]

\* no call in progress and none has overlapped another since the challenge
\* was issued
NoRace == [procs |-> [p \in Procs |-> Idle], raced |-> FALSE]

\* ret holds the callers' local variables once the challenge is issued
Racing == "procs" \in DOMAIN ret

\* a call is in progress between its cache.get and its last cache operation
InProgress(p) == ret.procs[p].pc # "idle"

\* send_otp while no call is in progress
RaceSend(t, purpose) ==
    /\ Racing => \A p \in Procs : ~InProgress(p)
    /\ \E code \in FlowCodes :
         LET r == send_otp(cache, now, t, purpose, code) IN
         /\ cache' = r.cache
         /\ ret' = IF r.ret \/ ~Racing THEN NoRace ELSE ret
         /\ SendHistory(t, code, r)
    /\ UNCHANGED <<now, flowVars>>

\* lines 145-161 of verify_otp in its variants: cache.get(key) and the tests on
\* the value read; "code" is the source, "no_limit" leaves out the test of
\* attempts
RaceGetVariant(p, t, code, purpose, variant) ==
    /\ Racing /\ ~InProgress(p)
    /\ hist[t].compared < MaxCompared
    /\ LET read == cache_get(cache, t, now)
           next == [ret EXCEPT !.raced = @ \/ \E q \in Procs \ {p} : InProgress(q)]
       IN
       IF read = {} THEN ret' = next /\ hist' = hist
       ELSE LET otp_data == CHOOSE d \in read : TRUE IN
            IF otp_data.purpose # purpose THEN ret' = next /\ hist' = hist
            ELSE IF variant # "no_limit" /\ otp_data.attempts >= MAX_OTP_ATTEMPTS
            THEN /\ ret' = [next EXCEPT !.procs[p] =
                               [Idle EXCEPT !.pc = "purge", !.code = code]]
                 /\ hist' = hist
            ELSE IF otp_data.code = code
            THEN /\ ret' = [next EXCEPT !.procs[p] =
                               [pc |-> "consume", code |-> code,
                                otp_data |-> {otp_data}, timeout |-> 0]]
                 /\ hist' = [hist EXCEPT ![t].compared = @ + 1]
            ELSE /\ ret' = [next EXCEPT !.procs[p] =
                               [pc |-> "ttl", code |-> code,
                                otp_data |-> {[otp_data EXCEPT !.attempts = @ + 1]},
                                timeout |-> 0]]
                 /\ hist' = [hist EXCEPT ![t].compared = @ + 1]
    /\ UNCHANGED <<cache, now, flowVars>>

RaceGet_no_limit(p, t, code, purpose) == RaceGetVariant(p, t, code, purpose, "no_limit")

RaceGet(p, t, code, purpose) == RaceGetVariant(p, t, code, purpose, "code")

\* line 155: cache.delete(key) of an exhausted challenge, then return None
RacePurge(p, t) ==
    /\ Racing /\ ret.procs[p].pc = "purge"
    /\ cache' = cache_delete(cache, t)
    /\ ret' = [ret EXCEPT !.procs[p] = Idle]
    /\ UNCHANGED <<now, hist, flowVars>>

\* a consuming call that returns the data and leaves the challenge in the cache
RaceConsume_no_delete(p, t) ==
    /\ Racing /\ ret.procs[p].pc = "consume"
    /\ ret' = [ret EXCEPT !.procs[p] = Idle]
    /\ hist' = [hist EXCEPT ![t].consumed = @ + 1]
    /\ UNCHANGED <<cache, now, flowVars>>

\* lines 159-160: cache.delete(key), then return otp_data
RaceConsume(p, t) ==
    /\ Racing /\ ret.procs[p].pc = "consume"
    /\ cache' = cache_delete(cache, t)
    /\ ret' = [ret EXCEPT !.procs[p] = Idle]
    /\ hist' = [hist EXCEPT ![t].consumed = @ + 1]
    /\ UNCHANGED <<now, flowVars>>

\* line 164, the argument: cache.ttl(key)
RaceTtl(p, t) ==
    /\ Racing /\ ret.procs[p].pc = "ttl"
    /\ ret' = [ret EXCEPT !.procs[p].pc = "set",
                          !.procs[p].timeout = cache_ttl(cache, t, now)]
    /\ UNCHANGED <<cache, now, hist, flowVars>>

\* line 164, the call: cache.set(key, otp_data, timeout), then return None
RaceSet(p, t) ==
    /\ Racing /\ ret.procs[p].pc = "set"
    /\ cache' = cache_set(cache, t, CHOOSE d \in ret.procs[p].otp_data : TRUE,
                          ret.procs[p].timeout, now)
    /\ ret' = [ret EXCEPT !.procs[p] = Idle]
    /\ UNCHANGED <<now, hist, flowVars>>

\* time passes while calls are in progress; expired keys leave the cache
RaceTick ==
    /\ now + TickSeconds <= ServiceMaxTime
    /\ now' = now + TickSeconds
    /\ cache' = expire(cache, now')
    /\ UNCHANGED <<ret, hist, flowVars>>

NextRace ==
    \/ \E t \in ServiceTargets, purpose \in {"register", "login"} : RaceSend(t, purpose)
    \/ \E p \in Procs, t \in ServiceTargets, code \in SubmittedCodes,
          purpose \in {"register", "login"} : RaceGet(p, t, code, purpose)
    \/ \E p \in Procs, t \in ServiceTargets : RacePurge(p, t)
    \/ \E p \in Procs, t \in ServiceTargets : RaceConsume(p, t)
    \/ \E p \in Procs, t \in ServiceTargets : RaceTtl(p, t)
    \/ \E p \in Procs, t \in ServiceTargets : RaceSet(p, t)
    \/ RaceTick

SpecRace == Init /\ [][NextRace]_vars

----------------------------------------------------------------------------
(* The register and login flow while the cache backend is down *)

\* the exception a cache call raises when the backend is unreachable
CacheError == "ConnectionError"

\* AuthViewSet.otp_request when the cache.get of send_otp raises: neither
\* send_otp nor the view catches, so the exception leaves the view
otp_request_outage(us, c, clock, sess, raw, purpose) ==
    LET ser == OTPRequestSerializer(us, raw, purpose) IN
    IF ser.errors # {}
    THEN [status |-> 400, body |-> ser.errors, cache |-> c, session |-> sess]
    ELSE [cache |-> c, session |-> sess] @@ ServerError(CacheError)

OtpRequestOutage(s, raw, purpose) ==
    LET r == otp_request_outage(users, cache, now, session[s], raw, purpose) IN
    /\ cache' = r.cache
    /\ session' = [session EXCEPT ![s] = r.session]
    /\ resp' = [endpoint |-> "otp_request",
                request |-> [target |-> raw, purpose |-> purpose],
                status |-> r.status, detail |-> r.body]
    /\ UNCHANGED <<now, ret, hist, users, nextId, tokens, used>>

\* AuthViewSet.otp_verify when the cache.get of verify_otp raises inside
\* OTPVerifySerializer.validate
otp_verify_outage(us, id, c, clock, sess, code) ==
    LET same == [cache |-> c, session |-> sess, users |-> us, nextId |-> id,
                 tokens |-> {}, user_id |-> 0]
    IN  IF sess.otp_target = <<>> \/ sess.otp_purpose = ""
        THEN same @@ [status |-> 400,
                      body |-> {"No active OTP request found. Please request a new code."}]
        ELSE same @@ ServerError(CacheError)

OtpVerifyOutage(s, code) ==
    LET r == otp_verify_outage(users, nextId, cache, now, session[s], code) IN
    /\ cache' = r.cache
    /\ session' = [session EXCEPT ![s] = r.session]
    /\ users' = r.users
    /\ nextId' = r.nextId
    /\ resp' = [endpoint |-> "otp_verify",
                request |-> [code |-> code, session |-> session[s]],
                status |-> r.status, detail |-> r.body,
                tokens |-> r.tokens, user_id |-> r.user_id]
    /\ UNCHANGED <<now, ret, hist, tokens, used>>

\* the targets asked for while the backend fails
OutageTargets == {E1Typed}

NextOutage ==
    \/ CreateUser(E1Typed, <<>>, PwOld)
    \/ \E s \in OneSession, raw \in OutageTargets, p \in {"register", "login"} :
           OtpRequest(s, raw, p)
    \/ \E s \in OneSession, code \in SubmittedCodes : OtpVerify(s, code)
    \/ \E s \in OneSession, raw \in OutageTargets, p \in {"register", "login"} :
           OtpRequestOutage(s, raw, p)
    \/ \E s \in OneSession, code \in SubmittedCodes : OtpVerifyOutage(s, code)
    \/ ServiceTick

SpecOutage == Init /\ [][NextOutage]_vars

----------------------------------------------------------------------------
(* Properties of OTPService *)

\* the target has a live (unexpired, unconsumed) challenge
Live(t) == cache_get(cache, t, now) # {}

\* the stored challenge of a live target
Challenge(t) == cache[t].data

\* C1. Single active challenge: a send_otp for a target that has a live
\* challenge returns False and leaves the whole store (code, purpose, attempts,
\* expiry) as it was; a live challenge always carries the code its issuing
\* call wrote.
C1_SingleActiveChallenge ==
    [][ /\ (ret'.op = "send_otp" /\ Live(ret'.target))
            => (~ret'.ok /\ cache' = cache)
        /\ \A t \in DOMAIN cache' : cache'[t].data.code = hist'[t].code
      ]_vars

\* a second send_otp, for another purpose, was refused while the first challenge lives
C1_Witness ==
    /\ ret.op = "send_otp" /\ ~ret.ok
    /\ Live(ret.target)
    /\ Challenge(ret.target).purpose # ret.purpose

\* C2. At-most-once consumption: one issued challenge satisfies at most one
\* verify_otp; when verify_otp returns the data the challenge is already gone,
\* and it stays gone (every verify returning None) until a send_otp succeeds.
C2_AtMostOnceConsumption ==
    /\ \A t \in Targets :
           /\ hist[t].consumed <= 1
           /\ hist[t].consumed = 1 => ~Live(t) /\ t \notin DOMAIN cache
    /\ (ret.op = "verify_otp" /\ ret.ok) =>
           (ret.target \notin DOMAIN cache /\ hist[ret.target].consumed = 1)

\* the consumed code was submitted again, same purpose, and got None
C2_Witness ==
    /\ ret.op = "verify_otp" /\ ~ret.ok /\ ret.path = "absent"
    /\ hist[ret.target].consumed = 1
    /\ ret.code = hist[ret.target].code

\* C3 as stated. Exhaustion purges: once attempts = MAX_OTP_ATTEMPTS, the next
\* verify_otp for the target, whatever its arguments, returns None and leaves
\* no challenge for the target.
C3_AnyVerifyPurges ==
    [][ (/\ ret'.op = "verify_otp"
         /\ Live(ret'.target)
         /\ Challenge(ret'.target).attempts = MAX_OTP_ATTEMPTS)
        => (~ret'.ok /\ ret'.target \notin DOMAIN cache')
      ]_vars

\* C3 amended. Once attempts = MAX_OTP_ATTEMPTS, the next verify_otp for the
\* target with the stored purpose (right or wrong code) returns None and
\* leaves no challenge for the target.
C3_ExhaustionPurges ==
    [][ (/\ ret'.op = "verify_otp"
         /\ Live(ret'.target)
         /\ Challenge(ret'.target).attempts = MAX_OTP_ATTEMPTS
         /\ Challenge(ret'.target).purpose = ret'.purpose)
        => (~ret'.ok /\ ret'.target \notin DOMAIN cache')
      ]_vars

\* an exhausted challenge was purged by a verify that carried the right code
C3_Witness ==
    /\ ret.op = "verify_otp" /\ ret.path = "exhausted" /\ ~ret.ok
    /\ ret.code = hist[ret.target].code
    /\ hist[ret.target].compared = MAX_OTP_ATTEMPTS
    /\ ret.target \notin DOMAIN cache

\* C4. Purpose isolation: a verify_otp whose purpose differs from the stored
\* one returns None for every code and leaves the store unchanged (attempts,
\* presence and expiry).
C4_PurposeIsolation ==
    [][ (/\ ret'.op = "verify_otp"
         /\ Live(ret'.target)
         /\ Challenge(ret'.target).purpose # ret'.purpose)
        => (~ret'.ok /\ cache' = cache)
      ]_vars

\* the right code under the wrong purpose was refused and nothing was counted
C4_Witness ==
    /\ ret.op = "verify_otp" /\ ret.path = "purpose" /\ ~ret.ok
    /\ Live(ret.target)
    /\ ret.code = Challenge(ret.target).code
    /\ Challenge(ret.target).attempts = 0

\* C5. Attempt monotonicity without TTL reset: each wrong-code verify_otp with
\* the stored purpose below the limit adds exactly one to attempts, so N of
\* them on a fresh challenge leave attempts = N (1 <= N <= MAX_OTP_ATTEMPTS);
\* the expiry of a challenge never moves to a later instant than the one set
\* at issuance.
C5_AttemptsWithoutTtlReset ==
    [][ /\ (/\ ret'.op = "verify_otp"
             /\ Live(ret'.target)
             /\ Challenge(ret'.target).purpose = ret'.purpose
             /\ Challenge(ret'.target).attempts < MAX_OTP_ATTEMPTS
             /\ Challenge(ret'.target).code # ret'.code)
            => (/\ ret'.target \in DOMAIN cache'
                /\ cache'[ret'.target].data.attempts = Challenge(ret'.target).attempts + 1
                /\ cache'[ret'.target].data.code = Challenge(ret'.target).code
                /\ cache'[ret'.target].data.purpose = Challenge(ret'.target).purpose)
        /\ \A t \in DOMAIN cache' :
               /\ cache'[t].data.attempts = hist'[t].compared
               /\ t \in DOMAIN cache => cache'[t].expiry <= cache[t].expiry
      ]_vars

\* the fifth wrong code was counted after time had passed since issuance
C5_Witness ==
    /\ ret.op = "verify_otp" /\ ret.path = "mismatch"
    /\ Live(ret.target)
    /\ Challenge(ret.target).attempts = MAX_OTP_ATTEMPTS
    /\ cache[ret.target].expiry - now < OTP_TTL_SECONDS

\* the attempts counter stays within 0..MAX_OTP_ATTEMPTS and one challenge is
\* compared against at most MAX_OTP_ATTEMPTS submitted codes
AttemptsBounded ==
    /\ \A t \in DOMAIN cache : cache[t].data.attempts \in 0..MAX_OTP_ATTEMPTS
    /\ \A t \in Targets : hist[t].compared \in 0..MAX_OTP_ATTEMPTS

\* C6 as stated. Brute-force bound: attempts stays within 0..MAX_OTP_ATTEMPTS,
\* one challenge is compared against at most MAX_OTP_ATTEMPTS codes, and after
\* MAX_OTP_ATTEMPTS wrong codes the next verify, whatever its arguments,
\* returns None and leaves no challenge for the target.
C6_AnySixthVerifyPurges ==
    [][ /\ AttemptsBounded'
        /\ (/\ ret'.op = "verify_otp"
             /\ Live(ret'.target)
             /\ hist[ret'.target].compared = MAX_OTP_ATTEMPTS)
            => (~ret'.ok /\ ret'.target \notin DOMAIN cache')
      ]_vars

\* C6 amended. The same, for the next verify that carries the purpose the
\* challenge was issued for.
C6_BruteForceBound ==
    [][ /\ AttemptsBounded'
        /\ (/\ ret'.op = "verify_otp"
             /\ Live(ret'.target)
             /\ hist[ret'.target].compared = MAX_OTP_ATTEMPTS
             /\ Challenge(ret'.target).purpose = ret'.purpose)
            => (~ret'.ok /\ ret'.target \notin DOMAIN cache')
      ]_vars

\* five wrong codes, then the right code was refused and the store is empty
C6_Witness ==
    /\ ret.op = "verify_otp" /\ ~ret.ok
    /\ ret.code = hist[ret.target].code
    /\ hist[ret.target].compared = MAX_OTP_ATTEMPTS
    /\ hist[ret.target].consumed = 0
    /\ now < OTP_TTL_SECONDS
    /\ cache = [x \in {} |-> 0]

\* C18. verify_otp(t, c, p) returns the challenge data if and only if a live
\* challenge exists for t, its purpose is p, its attempts is below
\* MAX_OTP_ATTEMPTS and its code is c; the tests come in the order existence,
\* purpose, exhaustion, code: a call with another purpose neither deletes nor
\* counts, whatever the attempts, and an exhausted challenge is purged without
\* being compared against the code.
C18_VerifyIffInOrder ==
    [][ ret'.op = "verify_otp"
        => LET t == ret'.target
               live == Live(t)
               d == Challenge(t)
           IN  /\ ret'.ok <=> /\ live
                              /\ d.purpose = ret'.purpose
                              /\ d.attempts < MAX_OTP_ATTEMPTS
                              /\ d.code = ret'.code
               /\ ret'.ok => hist'[t].consumed = hist[t].consumed + 1
               /\ ~live => (cache' = cache /\ hist' = hist)
               /\ (live /\ d.purpose # ret'.purpose) => (cache' = cache /\ hist' = hist)
               /\ (live /\ d.purpose = ret'.purpose /\ d.attempts >= MAX_OTP_ATTEMPTS)
                  => (t \notin DOMAIN cache' /\ hist' = hist)
      ]_vars

\* the right code under another purpose has met an exhausted challenge, five
\* codes compared, and left it stored
C18_Witness ==
    /\ ret.op = "verify_otp" /\ ~ret.ok
    /\ Live(ret.target)
    /\ Challenge(ret.target).purpose # ret.purpose
    /\ Challenge(ret.target).attempts = MAX_OTP_ATTEMPTS
    /\ Challenge(ret.target).code = ret.code
    /\ hist[ret.target].compared = MAX_OTP_ATTEMPTS

----------------------------------------------------------------------------
(* Properties of POST otp/request *)

\* the users a target resolves to
owners(us, target) ==
    {u \in DOMAIN us : us[u].email = target \/ us[u].phone_number = target}

\* the user table that differs from us only in whether target resolves to a
\* user: without its owner when it has one, with a new owner when it has none
Counterpart(us, target) ==
    IF user_exists(us, target)
    THEN [u \in DOMAIN us \ owners(us, target) |-> us[u]]
    ELSE [u \in DOMAIN us \cup {nextId} |->
             IF u \in DOMAIN us
             THEN us[u]
             ELSE [email |-> IF has_at(target) THEN target ELSE <<>>,
                   phone_number |-> IF has_at(target) THEN <<>> ELSE target,
                   password |-> <<>>,
                   is_email_verified |-> FALSE,
                   is_phone_verified |-> FALSE]]

\* C7. Enumeration resistance of otp_request: for two system states that
\* differ only in whether the requested target resolves to an existing user,
\* POST otp/request with the same target and purpose (register or login)
\* yields the same status code and the same response body.
C7_EnumerationResistance ==
    [][ (/\ resp'.endpoint = "otp_request"
         /\ resp'.request.purpose \in {"register", "login"})
        => \A s \in OneSession, code \in FlowCodes :
               LET target == OtpRequestTarget[resp'.request.target].value
                   other == otp_request(Counterpart(users, target), cache, now, session[s],
                                        resp'.request.target, resp'.request.purpose, code)
               IN  other.status = resp'.status /\ other.body = resp'.detail
      ]_vars

----------------------------------------------------------------------------
(* Properties of the password reset flow *)

\* the seconds since a token's timestamp
Age(tk) == now - b62_decode(tk.timestamp)

C9_TokenRoundTrip ==
    /\ \A h \in tokens :
           LET r == unsign(h.token, RESET_MAX_AGE, now) IN
           /\ h.user_id \in 1..(nextId - 1)
           /\ Age(h.token) <= RESET_MAX_AGE
                  => (r.error = "" /\ r.value = str(h.user_id) /\ int(r.value) = h.user_id)
           /\ Age(h.token) > RESET_MAX_AGE
                  => (r.error = "SignatureExpired" /\ r.value = <<>>)
    /\ \A tk \in Forged(Held, now) :
           LET r == unsign(tk, RESET_MAX_AGE, now) IN
           r.error = "BadSignature" /\ r.value = <<>>
    /\ (/\ resp.endpoint = "password_reset_set"
        /\ PasswordResetSetPasswordSerializer[
               <<resp.request.password, resp.request.password_confirm>>].errors = {})
       => LET tk == resp.request.reset_token IN
          /\ (tk \in Held /\ Age(tk) <= RESET_MAX_AGE) => resp.status \in {200, 404}
          /\ (tk \in Held /\ Age(tk) > RESET_MAX_AGE)
                 => (resp.status = 400 /\ resp.detail = {"Password reset link has expired."})
          /\ tk \notin Held
                 => (resp.status = 400 /\ resp.detail = {"Invalid password reset link."})

\* a token was redeemed at the last second of its window, while a copy of it
\* with a refreshed timestamp unsigns to nothing
C9_Witness ==
    /\ resp.endpoint = "password_reset_set" /\ resp.status = 200
    /\ resp.request.reset_token \in Held
    /\ Age(resp.request.reset_token) = RESET_MAX_AGE
    /\ \E tk \in Forged(Held, now) :
           /\ tk.value = resp.request.reset_token.value
           /\ tk.sig = resp.request.reset_token.sig
           /\ Age(tk) = 0

\* C10. password_reset_set changes a password only when password equals
\* password_confirm (as the serializer's fields hold them), the token is one
\* the server signed, its age is at most 300 s and the user named in it
\* exists; it then changes the password of exactly that user. In every other
\* case (mismatch: 400 whatever the token is; expired or tampered token: 400;
\* user missing: 404) no row of the user table is modified.
C10_ResetSetChangesOnlyThatUser ==
    [][ resp'.endpoint = "password_reset_set"
        => LET rq == resp'.request
               tk == rq.reset_token
               password == strip(rq.password)
               password_confirm == strip(rq.password_confirm)
               user_id == int(tk.value)
           IN  IF Len(password) < 8
               THEN resp'.status = 400 /\ users' = users
               ELSE IF password # password_confirm
               THEN /\ resp'.status = 400 /\ resp'.detail = {"Passwords do not match."}
                    /\ users' = users
               ELSE IF tk \notin Held \/ Age(tk) > RESET_MAX_AGE
               THEN resp'.status = 400 /\ users' = users
               ELSE IF user_id \notin DOMAIN users
               THEN resp'.status = 404 /\ users' = users
               ELSE /\ resp'.status = 200
                    /\ users' = [users EXCEPT ![user_id].password = make_password(password)]
      ]_vars

\* the reset changed the password of one of two users and left the other's,
\* the confirmation having been typed with a trailing blank
C10_Witness ==
    /\ resp.endpoint = "password_reset_set" /\ resp.status = 200
    /\ resp.request.password_confirm = PwNewTyped
    /\ DOMAIN users = {1, 2}
    /\ LET user_id == int(resp.request.reset_token.value) IN
       /\ users[user_id].password = make_password(PwNew)
       /\ \A u \in DOMAIN users \ {user_id} : users[u].password = make_password(PwOld)

----------------------------------------------------------------------------
(* Properties of the flows *)

\* the target of a request in its normal form: trimmed and lower-cased, a phone
\* number as "+98" and its digits
Normalized(raw) ==
    LET value == lower(strip(raw)) IN
    IF has_at(value) THEN value ELSE normalize_iran_phone(value)

\* the normalized target resolves to a user
Resolves(us, raw) == owners(us, Normalized(raw)) # {}

\* the existence rule of a request: register needs no user, login and a
\* password reset need one
ExistenceRule(us, endpoint, request) ==
    CASE endpoint = "otp_request" /\ request.purpose = "register" ->
             ~Resolves(us, request.target)
      [] endpoint = "otp_request" /\ request.purpose = "login" ->
             Resolves(us, request.target)
      [] endpoint = "password_reset_request" -> Resolves(us, request.target)
      [] OTHER -> TRUE

C12_OnlyRegisterOrLogin ==
    [][ /\ (/\ resp'.endpoint = "otp_request"
            /\ resp'.request.purpose \notin {"register", "login"})
           => (resp'.status = 400 /\ cache' = cache /\ session' = session)
        /\ (/\ resp'.endpoint = "otp_verify"
            /\ \E s \in OneSession : session[s].otp_purpose = "reset_password")
           => resp'.status # 200
      ]_vars

\* a step that leaves every stored challenge, every user and the sessions as they were
NothingTouched ==
    /\ cache' = cache
    /\ users' = users
    /\ nextId' = nextId
    /\ session' = session
    /\ tokens' = tokens

\* C13. Missing flow state is a hard failure: otp_verify with no otp_target or
\* no otp_purpose in the session, password_reset_verify with no reset_target
\* and change_identifier_verify (of an authenticated user) with no
\* change_identifier_target answer 400 with their "no active request" error in
\* place of verify_otp's, and leave every stored challenge, attempts counter
\* included, and all users unchanged.
C13_MissingFlowStateFails ==
    [][ \A s \in OneSession :
          /\ (/\ resp'.endpoint = "otp_verify"
              /\ (session[s].otp_target = <<>> \/ session[s].otp_purpose = ""))
             => /\ resp'.status = 400
                /\ resp'.detail = {"No active OTP request found. Please request a new code."}
                /\ resp'.tokens = {}
                /\ NothingTouched
          /\ (/\ resp'.endpoint = "password_reset_verify"
              /\ session[s].reset_target = <<>>)
             => /\ resp'.status = 400
                /\ resp'.detail = {"No active password reset request found."}
                /\ NothingTouched
          /\ (/\ resp'.endpoint = "change_identifier_verify"
              /\ resp'.request.user \in DOMAIN users
              /\ session[s].change_identifier_target = <<>>)
             => /\ resp'.status = 400
                /\ resp'.detail = {"No active change request found. Please start over."}
                /\ NothingTouched
      ]_vars

\* otp_verify has been refused for want of session keys while a challenge of
\* another flow is stored and its owner exists
C13_Witness ==
    /\ resp.endpoint = "otp_verify"
    /\ resp.status = 400
    /\ resp.detail = {"No active OTP request found. Please request a new code."}
    /\ session["s1"].otp_target = <<>>
    /\ session["s1"].reset_target # <<>>
    /\ cache_get(cache, session["s1"].reset_target, now) # {}
    /\ users # NoUsers

C15_LoginNeverCreates ==
    [][ (/\ resp'.endpoint = "otp_verify"
         /\ resp'.request.session.otp_purpose = "login")
        => LET t == resp'.request.session.otp_target
               verified == verify_otp(cache, now, t, resp'.request.code, "login").ret # {}
           IN  /\ users' = users
               /\ nextId' = nextId
               /\ resp'.status = 200
                  => /\ owners(users, t) = {resp'.user_id}
                     /\ resp'.tokens = get_tokens_for_user(resp'.user_id)
               /\ (verified /\ owners(users, t) = {})
                  => (resp'.status = 404 /\ resp'.tokens = {})
      ]_vars

----------------------------------------------------------------------------
(* Properties of POST login *)

\* C16. Password login answers 200 with tokens if and only if a user exists
\* for the normalized login identifier, the password supplied (as the
\* serializer's field holds it) matches that user's password hash, and at
\* least one of is_email_verified and is_phone_verified is true; in every
\* other case the response is 400 and no tokens are issued.
C16_PasswordLogin ==
    [][ resp'.endpoint = "login"
        => LET user == owners(users, Normalized(resp'.request.login))
               password == strip(resp'.request.password)
               ok == \E u \in user :
                        /\ users[u].password = <<"pbkdf2_sha256", password>>
                        /\ users[u].is_email_verified \/ users[u].is_phone_verified
           IN  /\ ok <=> resp'.status = 200
               /\ ok => /\ user = {resp'.user_id}
                        /\ resp'.tokens = get_tokens_for_user(resp'.user_id)
               /\ ~ok => resp'.status = 400 /\ resp'.tokens = {}
               /\ users' = users
      ]_vars

\* a login by phone number, the password typed with a trailing blank, has
\* succeeded for a user that has both identifiers and only the email verified
C16_Witness ==
    /\ resp.endpoint = "login"
    /\ resp.status = 200
    /\ resp.request.login = P1Typed
    /\ users[resp.user_id].email # <<>>
    /\ users[resp.user_id].is_email_verified
    /\ ~users[resp.user_id].is_phone_verified
    /\ resp.request.password = PwOldTyped

----------------------------------------------------------------------------
(* Properties of normalize_iran_phone *)

\* the value without the blanks and dashes of the accepted forms
Unseparated(value) ==
    LET Kept(ch) == ch \notin {" ", "-"} IN SelectSeq(value, Kept)

\* a mobile number in an accepted form: a leading 0, +98 or 98, then ten digits
\* of which the first is 9
ValidMobile(value) ==
    LET w == Unseparated(value) IN
    \E prefix \in {<<"0">>, <<"+", "9", "8">>, <<"9", "8">>} :
        /\ startswith(w, prefix)
        /\ Len(w) = Len(prefix) + 10
        /\ w[Len(prefix) + 1] = "9"
        /\ \A i \in (Len(prefix) + 1)..Len(w) : w[i] \in Digits

\* the last ten characters
National(w) == SubSeq(w, Len(w) - 9, Len(w))

\* C17. normalize_iran_phone maps every valid Iranian mobile number in an
\* accepted form (leading 0, +98 or 98, with blanks or dashes) to "+98" and
\* the ten digits that start with 9, returns an empty input as it is, and
\* returns every input that is not a valid mobile number unchanged.
C17_NormalizeOrUnchanged ==
    ret.op = "normalize_iran_phone"
    => IF ret.value # <<>> /\ ValidMobile(ret.value)
       THEN ret.result = <<"+", "9", "8">> \o National(Unseparated(ret.value))
       ELSE ret.result = ret.value

----------------------------------------------------------------------------
(* Properties of the verification steps *)

\* verify_otp on target t with this code and purpose would return the data
Verified(t, code, purpose) ==
    /\ t # <<>>
    /\ Live(t)
    /\ Challenge(t).purpose = purpose
    /\ Challenge(t).attempts < MAX_OTP_ATTEMPTS
    /\ Challenge(t).code = code

\* C19. A reset token is minted only after a successful reset_password
\* verification: password_reset_verify returns a reset_token only in a
\* request in which verify_otp succeeded for the session's reset_target with
\* purpose reset_password, and the identity signed into the token is the id of
\* the user that owns that reset_target, in decimal (never None, never another
\* user's id).
C19_TokenOnlyAfterVerification ==
    [][ resp'.endpoint = "password_reset_verify"
        => \A s \in OneSession :
              LET t == session[s].reset_target
                  verified == Verified(t, resp'.request.code, "reset_password")
              IN  /\ resp'.status = 200
                     => /\ verified
                        /\ \E u \in owners(users, t) :
                              /\ Held' = {[value |-> str(u),
                                           timestamp |-> b62_encode(now),
                                           sig |-> Signature(RESET_SALT, str(u),
                                                             b62_encode(now))]}
                              /\ \A h \in tokens' : h.user_id = u /\ int(h.token.value) = u
                  /\ resp'.status # 200 => tokens' = tokens
                  /\ ~verified => resp'.status = 400
      ]_vars

\* a token has been minted for the second user, the owner of the email, while
\* the first user exists
C19_Witness ==
    /\ resp.endpoint = "password_reset_verify"
    /\ resp.status = 200
    /\ \E h \in tokens :
          /\ h.user_id = 2
          /\ h.token.value = <<"2">>
          /\ b62_decode(h.token.timestamp) = now
          /\ users[2].email = E1
    /\ 1 \in DOMAIN users

\* C20. Session cleared on verification: after an otp_verify,
\* password_reset_verify or change_identifier_verify request in which
\* verify_otp succeeded, the keys of that flow (otp_target and otp_purpose;
\* reset_target and reset_user_id; change_identifier_target) are absent from
\* the session, also when the user lookup that follows fails.
C20_SessionClearedOnVerification ==
    [][ \A s \in OneSession :
          /\ (/\ resp'.endpoint = "otp_verify"
              /\ Verified(session[s].otp_target, resp'.request.code,
                          session[s].otp_purpose))
             => (session'[s].otp_target = <<>> /\ session'[s].otp_purpose = "")
          /\ (/\ resp'.endpoint = "password_reset_verify"
              /\ Verified(session[s].reset_target, resp'.request.code, "reset_password"))
             => (session'[s].reset_target = <<>> /\ session'[s].reset_user_id = 0)
          /\ (/\ resp'.endpoint = "change_identifier_verify"
              /\ resp'.request.user \in DOMAIN users
              /\ Verified(session[s].change_identifier_target, resp'.request.code,
                          "change_identifier"))
             => session'[s].change_identifier_target = <<>>
      ]_vars

----------------------------------------------------------------------------
(* Properties of the identifier change flow and of profile/complete *)

\* the identifier of row that target t names: the email when t contains "@",
\* otherwise the phone number
identifier_of(row, t) == IF has_at(t) THEN row.email ELSE row.phone_number

\* C21. No ambiguous state in identifier change: whenever
\* change_identifier_verify consumes the challenge, the request ends with the
\* authenticated user's identifier set to the target and
\* change_identifier_target removed from the session, also when another account
\* acquired the same target between the request step and the verify step.
C21_NoAmbiguousState ==
    [][ \A s \in OneSession :
          (/\ resp'.endpoint = "change_identifier_verify"
           /\ resp'.request.user \in DOMAIN users
           /\ Verified(session[s].change_identifier_target, resp'.request.code,
                       "change_identifier"))
          => /\ identifier_of(users'[resp'.request.user],
                              session[s].change_identifier_target)
                    = session[s].change_identifier_target
             /\ session'[s].change_identifier_target = <<>>
      ]_vars

\* C22. Identifier change effect and frame: a successful
\* change_identifier_verify sets exactly one identifier of the authenticated
\* user, the email when the target contains "@" and the phone number otherwise,
\* to the session's change_identifier_target and sets the corresponding verified
\* flag; the user's other identifier and its flag, and every other user, are
\* unchanged; a failed verification (400) changes no user field.
C22_ChangeEffectAndFrame ==
    [][ \A s \in OneSession :
          resp'.endpoint = "change_identifier_verify"
          => LET u == resp'.request.user
                 t == session[s].change_identifier_target
             IN  /\ resp'.status = 200
                    => users' = [users EXCEPT ![u] =
                                    IF has_at(t)
                                    THEN [@ EXCEPT !.email = t, !.is_email_verified = TRUE]
                                    ELSE [@ EXCEPT !.phone_number = t,
                                                   !.is_phone_verified = TRUE]]
                 /\ resp'.status = 400 => users' = users
      ]_vars

\* a user with an unverified email has just been given a second mobile number by
\* a successful change_identifier_verify, beside another user
C22_Witness ==
    /\ resp.endpoint = "change_identifier_verify"
    /\ resp.status = 200
    /\ DOMAIN users = {1, 2}
    /\ LET row == users[resp.request.user] IN
       /\ row.phone_number = normalize_iran_phone(P2Typed)
       /\ row.is_phone_verified
       /\ row.email = E1
       /\ ~row.is_email_verified

\* C26. profile_complete never changes an identifier the user already has: an
\* email or phone_number that is set on the account before the request has the
\* same value after it, whatever fields the request carries, also for a user
\* who has both an email and a phone number.
C26_ProfileKeepsIdentifiers ==
    [][ (resp'.endpoint = "profile_complete" /\ resp'.request.user \in DOMAIN users)
        => LET u == resp'.request.user IN
           /\ users[u].email # <<>> => users'[u].email = users[u].email
           /\ users[u].phone_number # <<>> => users'[u].phone_number = users[u].phone_number
      ]_vars

\* user u holds a verified flag for an identifier after the step that it did not
\* hold for that identifier before
NewlyVerifiedEmail(u) ==
    /\ u \in DOMAIN users'
    /\ users'[u].email # <<>> /\ users'[u].is_email_verified
    /\ u \in DOMAIN users => (~users[u].is_email_verified \/ users[u].email # users'[u].email)

NewlyVerifiedPhone(u) ==
    /\ u \in DOMAIN users'
    /\ users'[u].phone_number # <<>> /\ users'[u].is_phone_verified
    /\ u \in DOMAIN users
       => (~users[u].is_phone_verified \/ users[u].phone_number # users'[u].phone_number)

\* the step is a request on behalf of user u in which verify_otp succeeded for
\* identifier t
ProvenBy(u, t) ==
    \E s \in OneSession :
        \/ /\ resp'.endpoint = "otp_verify"
           /\ resp'.user_id = u
           /\ session[s].otp_target = t
           /\ Verified(t, resp'.request.code, session[s].otp_purpose)
        \/ /\ resp'.endpoint = "change_identifier_verify"
           /\ resp'.request.user = u
           /\ session[s].change_identifier_target = t
           /\ Verified(t, resp'.request.code, "change_identifier")

\* the step is a profile_complete of user u that carries the field
SetByProfile(u, field) ==
    /\ resp'.endpoint = "profile_complete"
    /\ resp'.status = 200
    /\ resp'.request.user = u
    /\ field \in DOMAIN resp'.request.data

\* C30 as stated. A verified flag implies proof of possession: across otp_verify,
\* change_identifier_verify and profile_complete a user has is_email_verified
\* (is_phone_verified) true for its current email (phone_number) only if a
\* verify_otp for that very identifier succeeded earlier on behalf of that user;
\* that is, every step after which a user holds a flag it did not hold for that
\* identifier is such a verification.
C30_FlagImpliesProof ==
    [][ \A u \in 1..(MaxUsers + 1) :
          /\ NewlyVerifiedEmail(u) => ProvenBy(u, users'[u].email)
          /\ NewlyVerifiedPhone(u) => ProvenBy(u, users'[u].phone_number)
      ]_vars

\* C30, amended. Every step after which a user holds a verified flag it did not
\* hold for that identifier is a request of that user in which verify_otp
\* succeeded for the identifier, or a successful profile_complete of that user
\* that carries the identifier's field.
C30_FlagImpliesProofOrProfile ==
    [][ \A u \in 1..(MaxUsers + 1) :
          /\ NewlyVerifiedEmail(u)
             => (ProvenBy(u, users'[u].email) \/ SetByProfile(u, "email"))
          /\ NewlyVerifiedPhone(u)
             => (ProvenBy(u, users'[u].phone_number) \/ SetByProfile(u, "phone_number"))
      ]_vars

\* a user registered through otp_verify holds a verified email and, beside it, a
\* phone number that profile_complete marked verified
C30_Witness ==
    /\ resp.endpoint = "profile_complete"
    /\ resp.status = 200
    /\ LET row == users[resp.request.user] IN
       /\ row.password = <<>>
       /\ row.email = E1 /\ row.is_email_verified
       /\ row.phone_number = normalize_iran_phone(P2Typed) /\ row.is_phone_verified

----------------------------------------------------------------------------
(* Properties of the request steps *)

\* the endpoints that issue a challenge
RequestEndpoints ==
    {"otp_request", "password_reset_request", "change_identifier_request"}

\* the normal form of every target a request carries
NormalizedTarget == [raw \in TypedTargets |-> Normalized(raw)]

\* the identifier a target spells, whatever the code makes of it: the email
\* trimmed and in lower case, or "+98" and the ten digits of the mobile number
Canonical(raw) ==
    LET value == lower(strip(raw)) IN
    IF has_at(value) THEN value
    ELSE <<"+", "9", "8">> \o National(Unseparated(value))

CanonicalTarget == [raw \in TypedTargets |-> Canonical(raw)]

\* a cache key in normal form: an email trimmed and in lower case, or a mobile
\* number as "+98" and ten digits
NormalKey(k) ==
    IF has_at(k)
    THEN k = lower(strip(k))
    ELSE /\ Len(k) = 13
         /\ startswith(k, <<"+", "9", "8", "9">>)
         /\ \A i \in 2..Len(k) : IsDigit(k[i])

\* C25. Every challenge is stored under the normalized target: in otp_request,
\* password_reset_request and change_identifier_request the cache key is the
\* email trimmed and in lower case or the phone in its +98 form, so two
\* spellings of one identifier map to the same key and never hold two live
\* challenges at once.
C25_StoredUnderNormalizedTarget ==
    [][ /\ \A k \in DOMAIN cache' : NormalKey(k)
        /\ (resp'.endpoint \in RequestEndpoints /\ resp'.status = 200)
           => /\ CanonicalTarget[resp'.request.target] \in DOMAIN cache'
              /\ DOMAIN cache' \ DOMAIN cache \subseteq {CanonicalTarget[resp'.request.target]}
        /\ (resp'.endpoint \in RequestEndpoints /\ resp'.status = 429)
           => Live(CanonicalTarget[resp'.request.target])
      ]_vars

\* C27. Cooldown rejection is a no-op: when send_otp returns False inside
\* otp_request, password_reset_request or change_identifier_request the
\* response is 429, the stored challenges are unchanged and the caller's session
\* keeps the keys and values it had before the request.
C27_CooldownIsNoOp ==
    [][ \A raw \in TypedTargets :
          (/\ resp'.endpoint \in RequestEndpoints
           /\ resp'.request.target = raw
           /\ resp'.status # 400 /\ resp'.status # 401
           /\ Live(NormalizedTarget[raw]))
          => (resp'.status = 429 /\ cache' = cache /\ session' = session)
      ]_vars

\* the second client is refused a login challenge for the mobile number while the
\* first client's reset challenge for it is live, and keeps the email flow it
\* had started
C27_Witness ==
    /\ resp.endpoint = "otp_request"
    /\ resp.status = 429
    /\ resp.request.target = P1Dashed
    /\ Live(P1) /\ Challenge(P1).purpose = "reset_password"
    /\ session["s1"].reset_target = P1
    /\ session["s2"].otp_target = E1 /\ session["s2"].otp_purpose = "register"

----------------------------------------------------------------------------
(* Properties of the flows of two clients *)

\* the step changes or removes the live challenge stored for target t
Touched(t) == Live(t) /\ (t \notin DOMAIN cache' \/ cache'[t] # cache[t])

\* C29 as stated. Challenges are bound to the session that requested them: a
\* verify request from session S increments the attempts of, deletes or
\* consumes the challenge stored for target t only if that challenge was issued
\* by a request made in S, also when S holds stale flow state for t.
C29_BoundToSession ==
    [][ \A s \in Sessions, code \in SubmittedCodes, t \in {E1, P1} :
          (OtpVerify(s, code) /\ Touched(t)) => Challenge(t).code = SessionCode[s]
      ]_vars

\* C29, amended. A verify request from session S increments the attempts of,
\* deletes or consumes only the challenge stored under S's own otp_target and
\* only when its purpose is S's otp_purpose; which session's request issued the
\* challenge plays no part.
C29_BoundToSessionTarget ==
    [][ \A s \in Sessions, code \in SubmittedCodes, t \in {E1, P1} :
          (OtpVerify(s, code) /\ Touched(t))
          => (session[s].otp_target = t /\ session[s].otp_purpose = Challenge(t).purpose)
      ]_vars

\* the first client, whose own challenge is gone, has just consumed the
\* challenge the second client's request issued for the same email, while the
\* second client's challenge for the mobile number is untouched
C29_Witness ==
    /\ resp.endpoint = "otp_verify"
    /\ resp.status = 200
    /\ resp.request.code = SessionCode["s2"]
    /\ session["s1"].otp_target = <<>>
    /\ session["s2"].otp_target = E1
    /\ ~Live(E1)
    /\ Live(P1) /\ Challenge(P1).attempts = 0

----------------------------------------------------------------------------
(* Properties of concurrent verify_otp calls *)

\* C24 as stated. At-most-once consumption under concurrency: for any
\* interleaving of verify_otp calls for the same target against one issued
\* challenge, at most one call returns the challenge data.
C24_AtMostOnceConcurrent ==
    \A t \in ServiceTargets : hist[t].consumed <= 1

\* C24, amended. At most one verify_otp call returns the data of one issued
\* challenge as long as no two calls for the target have been in progress at
\* the same time.
C24_AtMostOnceSequential ==
    \A t \in ServiceTargets :
        (Racing /\ ~ret.raced) => hist[t].consumed <= 1

\* one call has returned the data and the challenge is gone, no call having
\* overlapped another
C24_Witness ==
    /\ Racing /\ ~ret.raced
    /\ \A p \in Procs : ~InProgress(p)
    /\ hist[E1].consumed = 1
    /\ ~Live(E1)

\* C28 as stated. Guessing budget under concurrency: for any interleaving of
\* concurrent verify_otp calls for the same target and purpose the number of
\* submitted codes compared against one issued challenge never exceeds
\* MAX_OTP_ATTEMPTS.
C28_BudgetConcurrent ==
    \A t \in ServiceTargets : hist[t].compared <= MAX_OTP_ATTEMPTS

\* C28, amended. The number of codes compared against one issued challenge
\* never exceeds MAX_OTP_ATTEMPTS as long as no two calls for the target have
\* been in progress at the same time, and a call compares its code only when
\* the attempts it read are below MAX_OTP_ATTEMPTS.
C28_BudgetSequential ==
    [][ \A t \in ServiceTargets :
          /\ (Racing' /\ ~ret'.raced) => hist'[t].compared <= MAX_OTP_ATTEMPTS
          /\ hist'[t].compared > hist[t].compared
             => (Live(t) /\ Challenge(t).attempts < MAX_OTP_ATTEMPTS)
      ]_vars

\* five codes have been compared by calls that never overlapped and the stored
\* attempts have reached the maximum
C28_Witness ==
    /\ Racing /\ ~ret.raced
    /\ \A p \in Procs : ~InProgress(p)
    /\ hist[E1].compared = MAX_OTP_ATTEMPTS
    /\ Live(E1) /\ Challenge(E1).attempts = MAX_OTP_ATTEMPTS

----------------------------------------------------------------------------
(* Properties of the flows while the cache backend is down *)

\* C23. Store failure never crashes: if the cache backend raises during
\* send_otp or verify_otp, the request ends with a structured "please wait"
\* (429) or "invalid" (400) response rather than an unhandled exception, and no
\* flow session key is written and no user is created or modified.
C23_StoreFailureNeverCrashes ==
    [][ /\ \A s \in OneSession, raw \in OutageTargets, p \in {"register", "login"} :
             OtpRequestOutage(s, raw, p)
             => (resp'.status \in {429, 400} /\ session' = session /\ users' = users)
        /\ \A s \in OneSession, code \in SubmittedCodes :
             OtpVerifyOutage(s, code)
             => (resp'.status \in {429, 400} /\ session' = session /\ users' = users)
      ]_vars

====
